---- MODULE Spec2Model ----
(***************************************************************************)
(* A model of the concurrent document-store core of xdB: the per-path      *)
(* lock manager, the atomic writer, the record store with its secondary    *)
(* indexes, the delete-time relation policies, and the data cache of the   *)
(* Lite engine.  Each component has its own specification (SpecLock,       *)
(* SpecWrite, ...) over its own group of variables; the variables of the   *)
(* other groups stay at their initial values.                              *)
(***************************************************************************)
EXTENDS Integers, Sequences, FiniteSets, TLC

VARIABLES
  \* ---- lock manager (xdb.js 417-441)
  fileLocks,   \* the fileLocks map: path -> the acquirer whose promise is stored, or NoHolder
  lk,          \* acquirer -> its acquireLock call: pc ("idle" | "check" | "await" | "held"),
               \*   path, await (the holder whose promise it awaits),
               \*   expired (Date.now() - start > timeout), waited (it has awaited in this call)
  \* ---- atomic writer (xdb.js 482-518)
  disk,        \* path ("target" | "temp" | "backup") -> content of the file, or Absent
  aw,          \* the atomicWrite call: pc, data (being written), old (the content of
               \*   the target when the call started), handle (fileHandle is set), result
  awSeen,      \* what the last read of the target returned
  \* ---- record store, index manager and relation manager (xdb.js 524-1561)
  files,       \* collection path -> content of the data file (NoFile, or File of a sequence of records)
  indexFiles,  \* index file path -> content of the index file (NoFile, or File of a map value key -> ids)
  dbLocks,     \* the fileLocks map for the data files: path -> the task holding the lock, or NoHolder
  tasks,       \* task slot -> a running call of the store or one relation check of a delete
  tokenCounter,         \* the number of tokens _xdToken has produced
  relationDefinitions,  \* relation name -> its configuration
  files0,      \* the data files as they were when the store was opened
  \* ---- Lite engine: one collection and its data cache (xdbLite.js 118-293, 512-562, 712-722)
  cachingEnabled,  \* the cachingEnabled option
  liteFile,    \* content of the collection file (NoFile, or File of a sequence of records)
  dataCache,   \* the dataCache entry of the collection: NoFile, or File of the cached array
  liteLock,    \* the fileLocks entry of the collection: the writer holding it, or NoHolder
  lw,          \* writer -> its addRecordById call: pc, snap (the JSON text it writes), result
  lr,          \* the reader's viewAll call: pc, got (what its readFile returned)
  serial,      \* the successful mutations applied in lock-acquisition order
  recordCache, \* the dataCache entries of the records: id -> NoEntry, or Entry of the cached record
  committed,   \* the contents the collection file has held
  vo,          \* the reader's viewRecordById call: pc, id, after (the writers whose add.id
               \*   of that id had returned when it was called), got, result
  \* ---- reads: view.all and view.more of the four engines on one collection
  viewEngine,      \* the engine the caller imported
  viewCaching,     \* its cachingEnabled option (xdbLite and xdFiles)
  viewFile,        \* content of the collection file
  viewCache,       \* the dataCache entry of the collection: NoFile, or File of the cached array
  viewDescriptor,  \* xdFiles' fileDescriptors entry of the collection: "none", "exists" or "missing"
  viewCall,        \* the last view call: its operation, its options and what it returned
  \* ---- audits: utils.verifyRelations (xdb.js 1565-1633)
  verification,    \* done: the sweep has returned; inconsistencies: what it returned
  \* ---- relations.getRelated and the relation cache (xdb.js 61-63, 329-333, 1702-1787)
  enableRelationCache,  \* the enableRelationCache option
  relationCache,   \* the relationCache map: <<relationName, localId>> -> its entry, or NoEntry
  relatedCall,     \* the getRelated call made since the last write: pc, its arguments,
                   \*   the foreign ids it read from the junction file, overlapped
                   \*   (a collection was written while it ran), result
  \* ---- relations library (xdbLiteRelations.js, xdFilesRelations.js)
  relationsCache,  \* the relationsCache map: relation key -> its entry, or NoEntry
  libCall,         \* the application's getRelated calls: n (how many it has made),
                   \*   toField and data (the argument and the result of the last one)
  \* ---- xdFiles: batch operations (part_002 845-936)
  batchFiles,      \* path -> the text of the file, or Absent
  batch,           \* the batch: pc ("build" | "commit" | "done"), operations, next (the
                   \*   operation commit is at), rollback, before (the files when commit
                   \*   was called), result
  \* ---- events: xdB.on listeners (xdb.js 28-49) and xdFiles handlers (part_002 612-628)
  hookEngine,      \* the engine the caller imported
  listener,        \* the registered listener: its event and what it does
  hookFile,        \* content of the collection file
  callerRecord,    \* the object the caller passed to add.id, which event listeners receive
  timers,          \* the events whose setTimeout(..., 0) callback has not run yet
  hookCall,        \* the call: pc, arg (the argument as it was passed), before (the file
                   \*   when it was made), data (what it is writing), result
  \* ---- del.id with its relation checks over the lock manager (xdb.js 1048-1224)
  del,             \* acquirer -> the del.id or edit.id call it runs: pc, kind, file, id,
                   \*   parent (the call whose relation check awaits it), pending (the
                   \*   calls it awaits), data (what it read under the lock), result
  \* ---- relations add-on: createManyToMany (xdbLiteRelations.js 36-65)
  linkTable,       \* the rows of the junction table file
  linkLock,        \* the call that holds the lock of the junction table, or NoHolder
  linkCall         \* call -> pc, id1, id2 (the pair it links), data (what add.id is
                   \*   writing), result

lockVars  == <<fileLocks, lk>>
writeVars == <<disk, aw, awSeen>>
dbVars    == <<files, indexFiles, dbLocks, tasks, tokenCounter, relationDefinitions, files0>>
liteVars  ==
  <<cachingEnabled, liteFile, dataCache, liteLock, lw, lr, serial, recordCache, vo, committed>>
viewVars  == <<viewEngine, viewCaching, viewFile, viewCache, viewDescriptor, viewCall>>
auditVars == <<verification>>
relatedVars == <<enableRelationCache, relationCache, relatedCall>>
libVars   == <<relationsCache, libCall>>
batchVars == <<batchFiles, batch>>
hookVars  == <<hookEngine, listener, hookFile, callerRecord, timers, hookCall>>
delVars   == <<del>>
linkVars  == <<linkTable, linkLock, linkCall>>
extVars   ==
  <<viewVars, auditVars, relatedVars, libVars, batchVars, hookVars, delVars, linkVars>>
coreVars  == <<lockVars, writeVars, dbVars, liteVars>>
vars == <<coreVars, extVars>>

notLockVars  == <<writeVars, dbVars, liteVars, extVars>>
notWriteVars == <<lockVars, dbVars, liteVars, extVars>>
notDbVars    == <<lockVars, writeVars, liteVars, extVars>>
notLiteVars  == <<lockVars, writeVars, dbVars, extVars>>
notViewVars  ==
  <<coreVars, auditVars, relatedVars, libVars, batchVars, hookVars, delVars, linkVars>>
notAuditVars ==
  <<coreVars, viewVars, relatedVars, libVars, batchVars, hookVars, delVars, linkVars>>
notRelatedVars ==
  <<lockVars, writeVars, liteVars, viewVars, auditVars, libVars, batchVars, hookVars, delVars,
    linkVars>>
notLibVars   ==
  <<lockVars, writeVars, liteVars, viewVars, auditVars, relatedVars, batchVars, hookVars, delVars,
    linkVars>>
notBatchVars ==
  <<coreVars, viewVars, auditVars, relatedVars, libVars, hookVars, delVars, linkVars>>
notHookVars  ==
  <<coreVars, viewVars, auditVars, relatedVars, libVars, batchVars, delVars, linkVars>>
notDelVars   ==
  <<writeVars, liteVars, viewVars, auditVars, relatedVars, libVars, batchVars, hookVars,
    linkVars>>

(***************************************************************************)
(* Lock manager                                                            *)
(***************************************************************************)
NLockProcs == 3
LockProcs  == 1..NLockProcs
LockPaths  == {"users.json", "posts.json"}
NoHolder   == 0
NoPath     == "<none>"

LkIdle == [pc |-> "idle", path |-> NoPath, await |-> NoHolder,
           expired |-> FALSE, waited |-> FALSE]

InitLockVars ==
  /\ fileLocks = [f \in LockPaths |-> NoHolder]
  /\ lk = [p \in LockProcs |-> LkIdle]

\* The loop guard of acquireLock, negated: !fileLocks.has(fullPath).
LockFreeAlways(path) == TRUE
LockFree(path) == fileLocks[path] = NoHolder

\* acquireLock is called: fullPath and start are fixed.
CallAcquire(p, path) ==
  /\ lk[p].pc = "idle"
  /\ lk' = [lk EXCEPT ![p] = [LkIdle EXCEPT !.pc = "check", !.path = path]]
  /\ UNCHANGED fileLocks
  /\ UNCHANGED notLockVars

\* The clock passes the acquirer's deadline.
Tick(p) ==
  /\ lk[p].pc \in {"check", "await"}
  /\ ~lk[p].expired
  /\ lk' = [lk EXCEPT ![p].expired = TRUE]
  /\ UNCHANGED fileLocks
  /\ UNCHANGED notLockVars

\* One synchronous run of acquireLock from the loop test: the path is locked
\* and the deadline has passed (throw), the path is locked (await the stored
\* promise), or the path is free (store a new promise and return).
AcquireStep(p) ==
  /\ lk[p].pc = "check"
  /\ IF ~LockFree(lk[p].path)
       THEN IF lk[p].expired
              THEN /\ lk' = [lk EXCEPT ![p] = LkIdle]
                   /\ UNCHANGED fileLocks
              ELSE /\ lk' = [lk EXCEPT ![p].pc = "await",
                                       ![p].await = fileLocks[lk[p].path],
                                       ![p].waited = TRUE]
                   /\ UNCHANGED fileLocks
       ELSE /\ fileLocks' = [fileLocks EXCEPT ![lk[p].path] = p]
            /\ lk' = [lk EXCEPT ![p].pc = "held", ![p].await = NoHolder,
                                ![p].expired = FALSE]
  /\ UNCHANGED notLockVars

\* The release function: releaseLock(fullPath, release).  Resolving the
\* promise schedules every acquirer that awaits it.
Release(p) ==
  /\ lk[p].pc = "held"
  /\ IF fileLocks[lk[p].path] # NoHolder
       THEN /\ fileLocks' = [fileLocks EXCEPT ![lk[p].path] = NoHolder]
            /\ lk' = [q \in LockProcs |->
                 IF q = p THEN LkIdle
                 ELSE IF lk[q].pc = "await" /\ lk[q].await = p
                        THEN [lk[q] EXCEPT !.pc = "check", !.await = NoHolder]
                 ELSE lk[q]]
       ELSE /\ lk' = [lk EXCEPT ![p] = LkIdle]
            /\ UNCHANGED fileLocks
  /\ UNCHANGED notLockVars

NextLock ==
  \E p \in LockProcs :
    \/ \E path \in LockPaths : CallAcquire(p, path)
    \/ Tick(p)
    \/ AcquireStep(p)
    \/ Release(p)

(***************************************************************************)
(* Atomic writer                                                           *)
(***************************************************************************)
Absent   == "<absent>"
Empty    == "<empty>"      \* a file opened with "w" and not yet written
Partial  == "<partial>"    \* a file whose write stopped part-way
Contents == {"A", "B", "C"}

InitWriteVars ==
  /\ disk = [f \in {"target", "temp", "backup"} |-> Absent]
  /\ aw = [pc |-> "idle", data |-> Absent, old |-> Absent, handle |-> FALSE,
           result |-> "none"]
  /\ awSeen = Absent

\* tempPath = fullPath + ".tmp" + Date.now() + Math.random(): a fresh sibling.
TempPathIsTarget == "target"
TempPath == "temp"

\* atomicWrite(filePath, data) is called; with backups on write enabled the
\* call starts with createBackupIfNeeded.
AwCall(d, backup) ==
  /\ aw.pc = "idle"
  /\ aw' = [pc |-> IF backup THEN "backup" ELSE "mkdir", data |-> d,
            old |-> disk["target"], handle |-> FALSE, result |-> "none"]
  /\ UNCHANGED <<disk, awSeen>>
  /\ UNCHANGED notWriteVars

\* createBackupIfNeeded: stat, then copyFile(fullPath, backupPath); a failure
\* is logged and swallowed.
AwBackup(ok) ==
  /\ aw.pc = "backup"
  /\ disk' = IF ok /\ disk["target"] # Absent
               THEN [disk EXCEPT !["backup"] = disk["target"]]
               ELSE disk
  /\ aw' = [aw EXCEPT !.pc = "mkdir"]
  /\ UNCHANGED awSeen
  /\ UNCHANGED notWriteVars

\* await ensureDirectoryExists(path.dirname(fullPath))
AwMkdir ==
  /\ aw.pc = "mkdir"
  /\ aw' = [aw EXCEPT !.pc = "open"]
  /\ UNCHANGED <<disk, awSeen>>
  /\ UNCHANGED notWriteVars

\* fileHandle = await fs.open(tempPath, "w")
AwOpen ==
  /\ aw.pc = "open"
  /\ disk' = [disk EXCEPT ![TempPath] = Empty]
  /\ aw' = [aw EXCEPT !.pc = "write", !.handle = TRUE]
  /\ UNCHANGED awSeen
  /\ UNCHANGED notWriteVars

\* await fileHandle.writeFile(data, "utf-8")
AwWriteFile ==
  /\ aw.pc = "write"
  /\ disk' = [disk EXCEPT ![TempPath] = aw.data]
  /\ aw' = [aw EXCEPT !.pc = "sync"]
  /\ UNCHANGED awSeen
  /\ UNCHANGED notWriteVars

\* await fileHandle.sync(); await fileHandle.close()
AwSyncClose ==
  /\ aw.pc \in {"sync", "close"}
  /\ aw' = [aw EXCEPT !.pc = IF aw.pc = "sync" THEN "close" ELSE "rename"]
  /\ UNCHANGED <<disk, awSeen>>
  /\ UNCHANGED notWriteVars

\* await fs.rename(tempPath, fullPath), and the call returns.
AwRename ==
  /\ aw.pc = "rename"
  /\ disk' = [[disk EXCEPT ![TempPath] = Absent] EXCEPT !["target"] = disk[TempPath]]
  /\ aw' = [aw EXCEPT !.pc = "idle", !.result = "ok", !.handle = FALSE]
  /\ UNCHANGED awSeen
  /\ UNCHANGED notWriteVars

\* One of the awaited calls rejects; a writeFile that fails may have written
\* part of the data.
AwFail ==
  /\ aw.pc \in {"mkdir", "open", "write", "sync", "close", "rename"}
  /\ disk' = IF aw.pc = "write" THEN [disk EXCEPT ![TempPath] = Partial] ELSE disk
  /\ aw' = [aw EXCEPT !.pc = "cleanup"]
  /\ UNCHANGED awSeen
  /\ UNCHANGED notWriteVars

\* The catch block: close the handle, cleanupTempFile(tempPath) (an unlink
\* that fails is logged), throw IO_ERROR.
AwCleanup(unlinked) ==
  /\ aw.pc = "cleanup"
  /\ disk' = IF unlinked THEN [disk EXCEPT ![TempPath] = Absent] ELSE disk
  /\ aw' = [aw EXCEPT !.pc = "idle", !.result = "IO_ERROR", !.handle = FALSE]
  /\ UNCHANGED awSeen
  /\ UNCHANGED notWriteVars

\* The process is interrupted during the call.
AwCrash ==
  /\ aw.pc \notin {"idle", "crashed"}
  /\ aw' = [aw EXCEPT !.pc = "crashed", !.handle = FALSE]
  /\ UNCHANGED <<disk, awSeen>>
  /\ UNCHANGED notWriteVars

\* A read of the target: fs.readFile(fullPath).
AwRead ==
  /\ awSeen' = disk["target"]
  /\ awSeen' # awSeen
  /\ UNCHANGED <<disk, aw>>
  /\ UNCHANGED notWriteVars

NextWrite ==
  \/ \E d \in Contents, backup \in BOOLEAN : AwCall(d, backup)
  \/ \E ok \in BOOLEAN : AwBackup(ok)
  \/ AwMkdir
  \/ AwOpen
  \/ AwWriteFile
  \/ AwSyncClose
  \/ AwRename
  \/ AwFail
  \/ \E unlinked \in BOOLEAN : AwCleanup(unlinked)
  \/ AwCrash
  \/ AwRead

(***************************************************************************)
(* Records, collections and JavaScript's value conversions                 *)
(***************************************************************************)
Null  == "<null>"        \* null
Undef == "<undefined>"   \* undefined: a field the record does not have
Num1  == "#1"            \* the number 1 (a value that is not a string)

\* String(v)
Str(v) == CASE v = Null  -> "null"
            [] v = Undef -> "undefined"
            [] v = Num1  -> "1"
            [] OTHER     -> v

\* a == s for a string s (deleteRecordById's filters r[field] == recordId):
\* null and undefined equal no string, a number equals its digits.
LooseEq(v, s) == v \notin {Null, Undef} /\ Str(v) = s

\* record[k] and record.hasOwnProperty(k)
Get(r, k) == IF k \in DOMAIN r THEN r[k] ELSE Undef
Has(r, k) == k \in DOMAIN r

\* A merge that keeps nothing of a: the patch replaces the record.
MergeReplace(a, b) == b

\* { ...a, ...b } and { ...r, [k]: v }
Merge(a, b) == [x \in DOMAIN a \cup DOMAIN b |-> IF x \in DOMAIN b THEN b[x] ELSE a[x]]
With(r, k, v) == [x \in DOMAIN r \cup {k} |-> IF x = k THEN v ELSE r[x]]

\* ensureJsonExtension(filePath)
EnsureJsonExtension(f) ==
  CASE f = "users" -> "users.json"
    [] f = "posts" -> "posts.json"
    [] f = "archive/users" -> "archive/users.json"
    [] OTHER       -> f

\* path.basename(dataFilePath)
Basename(f) ==
  CASE f = "archive/users.json" -> "users.json"
    [] OTHER                    -> f

\* validateId(id) for a string id
ValidId(id) == id # ""

SeqFilter(s, Keep(_)) ==
  LET F[i \in 0..Len(s)] ==
        IF i = 0 THEN <<>>
        ELSE IF Keep(s[i]) THEN Append(F[i - 1], s[i]) ELSE F[i - 1]
  IN F[Len(s)]

SeqContains(s, x) == \E i \in 1..Len(s) : s[i] = x

\* data.some(record => String(record.id) === id)
HasId(data, id) == \E i \in 1..Len(data) : Str(Get(data[i], "id")) = id

\* data.findIndex(record => String(record.id) === id), 0 for -1
FindIndex(data, id) ==
  IF HasId(data, id)
    THEN CHOOSE i \in 1..Len(data) :
           /\ Str(Get(data[i], "id")) = id
           /\ \A j \in 1..(i - 1) : Str(Get(data[j], "id")) # id
    ELSE 0

\* data.filter(record => String(record.id) !== id)
WithoutId(data, id) == SeqFilter(data, LAMBDA r : Str(Get(r, "id")) # id)

\* A file of the store: missing, or holding the JSON text of data.
NoFile     == [exists |-> FALSE, data |-> <<>>]
File(data) == [exists |-> TRUE, data |-> data]
\* A file that holds a JSON object, as add.all leaves it when it is given one
\* record instead of an array; Array.isArray of what safeParseJSON returns.
ObjectFile       == [exists |-> TRUE, data |-> <<>>, object |-> TRUE]
IsArray(content) == "object" \notin DOMAIN content

\* safeParseJSON of a collection file: a missing file reads as [].
ParseFile(content) == IF content.exists THEN content.data ELSE <<>>

(***************************************************************************)
(* Identifier allocation                                                   *)
(***************************************************************************)
MaxTokens  == 3
TokenTable == <<"t1", "t2", "t3", "t4", "t5", "t6", "t7", "t8">>
MaxAttempts == 10

\* Ids that callers supply themselves.
KeyTable == <<"k1", "k2", "k3", "k4", "k5", "k6">>

\* _xdToken: the nth token of this process (time, pid and a counter).
Token(n) == TokenTable[n]

\* addRecordById's collision loop: the number of tokens drawn, starting with
\* token c + 1, until one is not an id of data or the attempts are used up.
RECURSIVE TokensDrawn(_, _, _)
TokensDrawn(data, c, attempts) ==
  IF HasId(data, Token(c + 1)) /\ attempts < MaxAttempts /\ c + 2 <= Len(TokenTable)
    THEN 1 + TokensDrawn(data, c + 1, attempts + 1)
    ELSE 1

(***************************************************************************)
(* Index files                                                             *)
(***************************************************************************)
\* Keys every JavaScript object inherits: indexData[key] is then a function,
\* not undefined, although the index has no such entry.
ProtoKeys == {"constructor"}

EmptyIndex == [k \in {} |-> <<>>]

\* The indexData of updateIndex / removeFromIndex / findIndexedRecords: the
\* parsed index file when it holds an object, else {}.
ParseIndex(content) == IF content.exists THEN content.data ELSE EmptyIndex

MapPut(m, k, v) == [x \in DOMAIN m \cup {k} |-> IF x = k THEN v ELSE m[x]]
MapDel(m, k)    == [x \in DOMAIN m \ {k} |-> m[x]]

\* updateIndex on the parsed index: ok is FALSE when the call throws.
UpdateIndexData(m, key, id) ==
  IF key \in DOMAIN m
    THEN [ok |-> TRUE,
          m  |-> IF SeqContains(m[key], id) THEN m ELSE [m EXCEPT ![key] = Append(@, id)]]
  ELSE IF key \in ProtoKeys
    THEN [ok |-> FALSE, m |-> m]
  ELSE [ok |-> TRUE, m |-> MapPut(m, key, <<id>>)]

\* removeFromIndex on the parsed index: write is whether the file is rewritten.
RemoveIndexData(m, key, id) ==
  IF key \in DOMAIN m
    THEN IF SeqContains(m[key], id)
           THEN LET rest == SeqFilter(m[key], LAMBDA x : x # id)
                IN [ok |-> TRUE, write |-> TRUE,
                    m |-> IF rest = <<>> THEN MapDel(m, key) ELSE [m EXCEPT ![key] = rest]]
           ELSE [ok |-> TRUE, write |-> FALSE, m |-> m]
  ELSE IF key \in ProtoKeys
    THEN [ok |-> FALSE, write |-> FALSE, m |-> m]
  ELSE [ok |-> TRUE, write |-> FALSE, m |-> m]

\* findIndexedRecords on an index file
FindInIndex(content, value) ==
  LET m == ParseIndex(content) key == Str(value)
  IN IF key \in DOMAIN m THEN m[key] ELSE <<>>

\* getIndexFilePath(dataFilePath, fieldName)
IndexFilePath(file, field) == <<Basename(file), field>>

\* getIndexConfigForFile(filePath)
IndexConfig(file) ==
  IF EnsureJsonExtension(file) \in {"users.json", "archive/users.json"} THEN <<"f">> ELSE <<>>

\* updateIndex(file, field, value, id) on the index files; ok FALSE: it threw.
UpdateIndex(ix, file, field, value, id) ==
  LET p == IndexFilePath(file, field)
      r == UpdateIndexData(ParseIndex(ix[p]), Str(value), id)
  IN [ok |-> r.ok, ix |-> IF r.ok THEN [ix EXCEPT ![p] = File(r.m)] ELSE ix]

\* removeFromIndex(file, field, value, id) on the index files
RemoveFromIndex(ix, file, field, value, id) ==
  LET p == IndexFilePath(file, field)
      r == RemoveIndexData(ParseIndex(ix[p]), Str(value), id)
  IN [ok |-> r.ok, ix |-> IF r.ok /\ r.write THEN [ix EXCEPT ![p] = File(r.m)] ELSE ix]

\* The loop "for fieldName of fieldsToIndex: if record has it, updateIndex"
\* from field number i on; the first throw ends the enclosing try block.
RECURSIVE UpdateLoop(_, _, _, _, _, _)
UpdateLoop(ix, file, fields, i, rec, id) ==
  IF i > Len(fields) THEN [ok |-> TRUE, ix |-> ix]
  ELSE IF ~Has(rec, fields[i]) THEN UpdateLoop(ix, file, fields, i + 1, rec, id)
  ELSE LET r == UpdateIndex(ix, file, fields[i], rec[fields[i]], id)
       IN IF r.ok THEN UpdateLoop(r.ix, file, fields, i + 1, rec, id) ELSE r

RECURSIVE RemoveLoop(_, _, _, _, _, _)
RemoveLoop(ix, file, fields, i, rec, id) ==
  IF i > Len(fields) THEN [ok |-> TRUE, ix |-> ix]
  ELSE IF ~Has(rec, fields[i]) THEN RemoveLoop(ix, file, fields, i + 1, rec, id)
  ELSE LET r == RemoveFromIndex(ix, file, fields[i], rec[fields[i]], id)
       IN IF r.ok THEN RemoveLoop(r.ix, file, fields, i + 1, rec, id) ELSE r

\* The index block of addRecordById, editRecordById and deleteRecordById.
IndexAfterAdd(ix, file, rec) ==
  UpdateLoop(ix, file, IndexConfig(file), 1, rec, rec.id).ix

IndexAfterEdit(ix, file, original, updated, id) ==
  LET removed == RemoveLoop(ix, file, IndexConfig(file), 1, original, id)
  IN IF removed.ok
       THEN UpdateLoop(removed.ix, file, IndexConfig(file), 1, updated, id).ix
       ELSE removed.ix

IndexAfterDelete(ix, file, rec, id) ==
  RemoveLoop(ix, file, IndexConfig(file), 1, rec, id).ix

\* rebuildIndexesForFile: the newIndexData of one field over records 1..n;
\* ok FALSE when the loop throws.
RECURSIVE BuildIndex(_, _, _)
BuildIndex(data, field, n) ==
  IF n = 0 THEN [ok |-> TRUE, m |-> EmptyIndex]
  ELSE LET prev == BuildIndex(data, field, n - 1)
           rec  == data[n]
       IN IF ~prev.ok THEN prev
          ELSE IF Has(rec, field) /\ Get(rec, "id") \notin {Undef, Null}
            THEN UpdateIndexData(prev.m, Str(rec[field]), Str(rec.id))
            ELSE prev

RECURSIVE RebuildLoop(_, _, _, _, _)
RebuildLoop(ix, file, data, fields, i) ==
  IF i > Len(fields) THEN ix
  ELSE LET b == BuildIndex(data, fields[i], Len(data))
           p == IndexFilePath(file, fields[i])
       IN RebuildLoop(IF b.ok THEN [ix EXCEPT ![p] = File(b.m)] ELSE ix,
                      file, data, fields, i + 1)

RebuildIndexesForFile(ix, file, data) == RebuildLoop(ix, file, data, IndexConfig(file), 1)

\* deleteIndexesForFile: the index directory of the file's base name goes.
DeleteIndexesForFile(ix, file) ==
  [p \in DOMAIN ix |-> IF p[1] = Basename(file) THEN NoFile ELSE ix[p]]

(***************************************************************************)
(* Tasks: the calls of the store that are in progress                      *)
(***************************************************************************)
Files         == {"users.json", "posts.json", "tags.json", "user_tags.json"}
RelationOrder == <<"userPosts", "userEdits", "userTags">>   \* the order the relations were defined in
MaxPosts      == 2
MaxTasks      == 1 + Len(RelationOrder) * (1 + MaxPosts)
TaskIds       == 1..MaxTasks
NoParent      == NoHolder       \* a call made by the application
Detached      == MaxTasks + 1   \* a relation check whose Promise.all has already rejected

OperationFailed == "XDB_OPERATION_FAILED"
RecordNotFound  == "XDB_RECORD_NOT_FOUND"
RecordExists    == "XDB_RECORD_EXISTS"
IOError         == "XDB_IO_ERROR"

IndexPaths ==
  UNION {{IndexFilePath(f, IndexConfig(f)[i]) : i \in 1..Len(IndexConfig(f))} : f \in Files}

\* A task: kind is the operation ("addOne" ... "deleteAll") or, for one entry
\* of deleteRecordById's relatedChecks, the relation's policy; pc is the await
\* the call is suspended at:
\*   "lock"   acquireLock, then safeParseJSON under the lock
\*   "checks" await Promise.all(relatedChecks)
\*   "write"  atomicWrite of the data file
\*   "index"  the index maintenance after the write, then the return
\*   "view"   a relation check awaiting viewMoreFn
\*   "join"   a relation check awaiting Promise.all over its deletes or edits
\*   "done"   settled, with result "ok" or the error code
\* and for cascadeDelete of the relations library:
\*   "next"    at the top of the loop over the relations
\*   "related" awaiting getRelated
\*   "each"    at the top of the loop over the related records
\*   "item"    awaiting del.id or edit.id of a related record
\*   "primary" awaiting del.id of the record itself
\* warned: a delete or edit of a related record that the call, or a relation
\* check it awaited, was awaiting has thrown.
\* newRecord: eventData.newRecord of edit.id, the patch as the caller passed it.
FreeTask == [kind |-> "none", pc |-> "free", file |-> NoPath, id |-> "", arg |-> <<>>,
             orig |-> <<>>, data |-> <<>>, opt |-> FALSE, parent |-> NoParent,
             pending |-> 0, rel |-> "none", result |-> "none", warned |-> FALSE,
             newRecord |-> <<>>]

FreeSlots(ts) == {t \in TaskIds : ts[t].pc = "free"}
NthFree(ts, n) ==
  CHOOSE s \in FreeSlots(ts) : Cardinality({x \in FreeSlots(ts) : x < s}) = n - 1

Quiescent == \A t \in TaskIds : tasks[t].pc \in {"free", "done"}

DbLockFreeAlways(file) == TRUE
\* !fileLocks.has(fullPath): acquireLock's loop ends
DbLockFree(file) == dbLocks[file] = NoHolder

\* Every awaited rejection reaches the awaiter.
RejectsAwaiterAlways(par, rejected) == rejected
\* Does the rejection of a promise reach the call par that awaits it?  A
\* delete awaits its relation checks bare (Promise.all(relatedChecks)); a
\* CASCADE or SET_NULL check wraps each delete or edit it awaits in a
\* try/catch that logs a warning and goes on.
\* cascadeDelete awaits every del.id and edit.id bare.
RejectsAwaiter(par, rejected) == rejected /\ par.kind \in {"deleteOne", "cascadeDelete"}

\* The promise of task t settles.  A task the application called keeps its
\* result.  A task awaited by a relation check or by a delete leaves its
\* slot and its awaiter counts it: a rejected check rejects the delete's
\* Promise.all at once (catch, finally release; the other checks go on
\* unawaited); the last one to settle resumes the awaiter.
RECURSIVE Settle(_, _, _)
Settle(st, t, rejected) ==
  LET p     == st.tasks[t].parent
      freed == [st.tasks EXCEPT ![t] = FreeTask]
  IN IF p = NoParent THEN st
     ELSE IF p = Detached THEN [st EXCEPT !.tasks = freed]
     ELSE LET par == [freed[p] EXCEPT
                        !.pending = @ - 1,
                        !.warned = @ \/ st.tasks[t].warned
                                     \/ (rejected /\ freed[p].kind # "deleteOne"
                                                  /\ freed[p].pc # "primary")]
          IN IF RejectsAwaiter(par, rejected)
               THEN Settle([tasks |-> [s \in TaskIds |->
                              IF s = p
                                THEN [par EXCEPT !.pc = "done",
                                                 !.result = IF par.kind = "cascadeDelete"
                                                              THEN st.tasks[t].result
                                                              ELSE OperationFailed]
                              ELSE IF freed[s].parent = p
                                THEN [freed[s] EXCEPT !.parent = Detached]
                              ELSE freed[s]],
                            locks |-> [f \in DOMAIN st.locks |->
                                         IF st.locks[f] = p THEN NoHolder ELSE st.locks[f]]],
                           p, TRUE)
             ELSE IF par.pending > 0
               THEN [st EXCEPT !.tasks = [freed EXCEPT ![p] = par]]
             ELSE IF par.kind = "deleteOne"
               THEN [st EXCEPT !.tasks = [freed EXCEPT ![p] = [par EXCEPT !.pc = "write"]]]
             ELSE IF par.kind = "cascadeDelete"
               THEN [st EXCEPT !.tasks = [freed EXCEPT ![p] =
                       IF par.pc = "primary" THEN [par EXCEPT !.pc = "done", !.result = "ok"]
                                             ELSE [par EXCEPT !.pc = "each"]]]
             ELSE Settle([st EXCEPT !.tasks = [freed EXCEPT ![p] = [par EXCEPT !.pc = "done"]]],
                         p, FALSE)

\* The release only on the return path.
FinishedKeepsLockOnThrow(ts, lks, t, result) ==
  Settle([tasks |-> [ts EXCEPT ![t].pc = "done", ![t].result = result,
                               ![t].data = <<>>, ![t].orig = <<>>],
          locks |-> [f \in DOMAIN lks |->
                       IF lks[f] = t /\ result = "ok" THEN NoHolder ELSE lks[f]]],
         t, result # "ok")
\* Task t returns ("ok") or throws (an error code); finally: release().
Finished(ts, lks, t, result) ==
  Settle([tasks |-> [ts EXCEPT ![t].pc = "done", ![t].result = result,
                               ![t].data = <<>>, ![t].orig = <<>>],
          locks |-> [f \in DOMAIN lks |-> IF lks[f] = t THEN NoHolder ELSE lks[f]]],
         t, result # "ok")

SetIdLost(r, v) == r
\* { ...record, id: v }; JSON drops a property whose value is undefined.
SetId(r, v) == IF v = Undef THEN [x \in DOMAIN r \ {"id"} |-> r[x]] ELSE With(r, "id", v)

(***************************************************************************)
(* Record store: the calls                                                 *)
(***************************************************************************)
\* xdB.add.id(filePath, newRecord) up to acquireLock
CallAddOne(t, raw, rec) ==
  /\ tasks[t].pc \in {"free", "done"}
  /\ tasks' = [tasks EXCEPT ![t] = [FreeTask EXCEPT !.kind = "addOne", !.pc = "lock",
                                      !.file = EnsureJsonExtension(raw), !.arg = rec]]
  /\ UNCHANGED <<files, indexFiles, dbLocks, tokenCounter, relationDefinitions, files0>>
  /\ UNCHANGED notDbVars

\* xdB.edit.id(filePath, id, newRecord) up to acquireLock
CallEditOne(t, raw, id, patch) ==
  /\ tasks[t].pc \in {"free", "done"}
  /\ tasks' = [tasks EXCEPT ![t] =
                 IF ValidId(Str(id))
                   THEN [FreeTask EXCEPT !.kind = "editOne", !.pc = "lock",
                                         !.file = EnsureJsonExtension(raw),
                                         !.id = Str(id), !.arg = patch,
                                         !.newRecord = patch]
                   ELSE [FreeTask EXCEPT !.kind = "editOne", !.pc = "done",
                                         !.file = EnsureJsonExtension(raw),
                                         !.result = OperationFailed]]
  /\ UNCHANGED <<files, indexFiles, dbLocks, tokenCounter, relationDefinitions, files0>>
  /\ UNCHANGED notDbVars

\* xdB.del.id(filePath, id) up to acquireLock
CallDeleteOne(t, raw, id) ==
  /\ tasks[t].pc \in {"free", "done"}
  /\ tasks' = [tasks EXCEPT ![t] =
                 IF ValidId(Str(id))
                   THEN [FreeTask EXCEPT !.kind = "deleteOne", !.pc = "lock",
                                         !.file = EnsureJsonExtension(raw), !.id = Str(id)]
                   ELSE [FreeTask EXCEPT !.kind = "deleteOne", !.pc = "done",
                                         !.file = EnsureJsonExtension(raw),
                                         !.result = OperationFailed]]
  /\ UNCHANGED <<files, indexFiles, dbLocks, tokenCounter, relationDefinitions, files0>>
  /\ UNCHANGED notDbVars

\* addAll's initialData.map: ids for the records that have none, String() for
\* the others; c is the number of tokens produced so far.
RECURSIVE ProcessAddAll(_, _, _)
ProcessAddAll(recs, n, c) ==
  IF n = 0 THEN [ok |-> TRUE, data |-> <<>>, c |-> c]
  ELSE LET prev == ProcessAddAll(recs, n - 1, c)
           rec  == recs[n]
       IN IF ~prev.ok THEN prev
          ELSE IF Get(rec, "id") \in {Undef, Null}
            THEN [ok |-> TRUE, c |-> prev.c + 1,
                  data |-> Append(prev.data, With(rec, "id", Token(prev.c + 1)))]
          ELSE IF ValidId(Str(rec.id))
            THEN [prev EXCEPT !.data = Append(@, With(rec, "id", Str(rec.id)))]
          ELSE [prev EXCEPT !.ok = FALSE]

\* new Set(ids).size !== ids.length
DuplicateIds(data) ==
  \E i, j \in 1..Len(data) : i < j /\ data[i].id = data[j].id

\* xdB.add.all(filePath, initialData, { overwrite }) up to acquireLock
CallAddAll(t, raw, recs, overwrite) ==
  /\ tasks[t].pc \in {"free", "done"}
  /\ LET p == ProcessAddAll(recs, Len(recs), tokenCounter)
         call == [FreeTask EXCEPT !.kind = "addAll", !.file = EnsureJsonExtension(raw),
                                  !.opt = overwrite]
     IN /\ tokenCounter' = p.c
        /\ tasks' = [tasks EXCEPT ![t] =
                       IF ~p.ok THEN [call EXCEPT !.pc = "done", !.result = OperationFailed]
                       ELSE IF DuplicateIds(p.data)
                         THEN [call EXCEPT !.pc = "done", !.result = RecordExists]
                       ELSE [call EXCEPT !.pc = "lock", !.arg = p.data]]
  /\ UNCHANGED <<files, indexFiles, dbLocks, relationDefinitions, files0>>
  /\ UNCHANGED notDbVars

\* editAll's loop over newData: String() for the ids that are there.
EditAllRecord(rec) ==
  IF Get(rec, "id") \in {Undef, Null} THEN rec ELSE With(rec, "id", Str(rec.id))

EditAllValid(recs) ==
  \A i \in 1..Len(recs) : Get(recs[i], "id") \in {Undef, Null} \/ ValidId(Str(recs[i].id))

\* xdB.edit.all(filePath, newData) up to acquireLock
CallEditAll(t, raw, recs) ==
  /\ tasks[t].pc \in {"free", "done"}
  /\ LET call == [FreeTask EXCEPT !.kind = "editAll", !.file = EnsureJsonExtension(raw)]
     IN tasks' = [tasks EXCEPT ![t] =
                    IF EditAllValid(recs)
                      THEN [call EXCEPT !.pc = "lock",
                                        !.arg = [i \in 1..Len(recs) |-> EditAllRecord(recs[i])]]
                      ELSE [call EXCEPT !.pc = "done", !.result = OperationFailed]]
  /\ UNCHANGED <<files, indexFiles, dbLocks, tokenCounter, relationDefinitions, files0>>
  /\ UNCHANGED notDbVars

\* xdB.del.all(filePath) up to acquireLock
CallDeleteAll(t, raw) ==
  /\ tasks[t].pc \in {"free", "done"}
  /\ tasks' = [tasks EXCEPT ![t] = [FreeTask EXCEPT !.kind = "deleteAll", !.pc = "lock",
                                      !.file = EnsureJsonExtension(raw)]]
  /\ UNCHANGED <<files, indexFiles, dbLocks, tokenCounter, relationDefinitions, files0>>
  /\ UNCHANGED notDbVars

(***************************************************************************)
(* Record store: from the lock to the write                                *)
(***************************************************************************)
\* Each Begin... gives the tasks, the locks and the token count after the
\* call of task t has taken the lock (locked), read data and run up to its
\* next await.
BeginAddOne(t, data, locked) ==
  LET me == tasks[t] rec == me.arg
  IN IF Get(rec, "id") \in {Undef, Null}
       THEN LET n   == TokensDrawn(data, tokenCounter, 0)
                add == With(rec, "id", Token(tokenCounter + n))
            IN IF n - 1 >= MaxAttempts
                 THEN Finished(tasks, locked, t, OperationFailed) @@ [tokens |-> tokenCounter + n]
                 ELSE [tasks  |-> [tasks EXCEPT ![t].pc = "write", ![t].arg = add,
                                                ![t].data = Append(data, add)],
                       locks  |-> locked,
                       tokens |-> tokenCounter + n]
       ELSE LET add == With(rec, "id", Str(rec.id))
            IN IF ~ValidId(add.id)
                 THEN Finished(tasks, locked, t, OperationFailed) @@ [tokens |-> tokenCounter]
               ELSE IF HasId(data, add.id)
                 THEN Finished(tasks, locked, t, RecordExists) @@ [tokens |-> tokenCounter]
               ELSE [tasks  |-> [tasks EXCEPT ![t].pc = "write", ![t].arg = add,
                                              ![t].data = Append(data, add)],
                     locks  |-> locked,
                     tokens |-> tokenCounter]

BeginEditOne(t, data, locked) ==
  LET me == tasks[t] i == FindIndex(data, me.id)
  IN IF i = 0
       THEN Finished(tasks, locked, t, RecordNotFound) @@ [tokens |-> tokenCounter]
       ELSE LET updated == SetId(Merge(data[i], me.arg), Get(data[i], "id"))
            IN [tasks  |-> [tasks EXCEPT ![t].pc = "write", ![t].orig = data[i],
                                         ![t].arg = updated,
                                         ![t].data = [data EXCEPT ![i] = updated]],
                locks  |-> locked,
                tokens |-> tokenCounter]

\* xdbNano's add.id(filePath, record) up to acquireLock; id keeps the id the
\* caller supplied ("" when !record.id).
CallNanoAddOne(t, raw, rec) ==
  /\ tasks[t].pc \in {"free", "done"}
  /\ tasks' = [tasks EXCEPT ![t] =
                 [FreeTask EXCEPT !.kind = "nanoAddOne", !.pc = "lock",
                                  !.file = EnsureJsonExtension(raw), !.arg = rec,
                                  !.id = IF Get(rec, "id") \in {Undef, Null, ""}
                                           THEN "" ELSE Str(rec.id)]]
  /\ UNCHANGED <<files, indexFiles, dbLocks, tokenCounter, relationDefinitions, files0>>
  /\ UNCHANGED notDbVars

\* xdbNano's addRecordById from the lock to atomicWrite: a record without an
\* id gets a generated one; for a supplied id that is stored already the loop
\* `while (data.some(...) && attempts++ < 10) newRecord.id = generateId()`
\* replaces it by a generated one.  The record is pushed in either case.
BeginNanoAddOne(t, data, locked) ==
  LET me == tasks[t]
      n  == IF me.id = "" THEN TokensDrawn(data, tokenCounter, 0)
            ELSE IF HasId(data, me.id) THEN TokensDrawn(data, tokenCounter, 1)
            ELSE 0
      add == With(me.arg, "id", IF n = 0 THEN me.id ELSE Token(tokenCounter + n))
  IN IF ~IsArray(files[me.file])
       THEN Finished(tasks, locked, t, "Error") @@ [tokens |-> tokenCounter]
       ELSE [tasks  |-> [tasks EXCEPT ![t].pc = "write", ![t].arg = add,
                                      ![t].data = Append(data, add)],
             locks  |-> locked,
             tokens |-> tokenCounter + n]

\* relation.type === "N:M" ? junctionFile : foreignFile, and the field
RelFile(rel)  == IF rel.type = "N:M" THEN rel.junctionFile ELSE rel.foreignFile
\* The column of the junction file that refers to the foreign records.
RelFieldForeign(rel) ==
  IF rel.type = "N:M" THEN rel.junctionForeignField ELSE rel.foreignField
RelField(rel) == IF rel.type = "N:M" THEN rel.junctionLocalField ELSE rel.foreignField

\* The relations deleteRecordById's loop selects: relation.localFile === filePath
RelationsOf(file) ==
  SelectSeq(RelationOrder, LAMBDA n : /\ n \in DOMAIN relationDefinitions
                                      /\ relationDefinitions[n].localFile = file)

\* deleteRecordById from the lock to await Promise.all(relatedChecks): every
\* selected relation starts its check, which runs up to its viewMoreFn.
BeginDeleteOne(t, data, locked) ==
  LET me   == tasks[t]
      rels == RelationsOf(me.file)
      mine == [me EXCEPT !.pc = IF Len(rels) = 0 THEN "write" ELSE "checks",
                         !.orig = data[FindIndex(data, me.id)],
                         !.data = data, !.pending = Len(rels)]
  IN IF ~HasId(data, me.id)
       THEN Finished(tasks, locked, t, RecordNotFound) @@ [tokens |-> tokenCounter]
       ELSE [tasks  |-> [s \in TaskIds |->
                          IF s = t THEN mine
                          ELSE IF \E k \in 1..Len(rels) : s = NthFree(tasks, k)
                            THEN LET k == CHOOSE k \in 1..Len(rels) : s = NthFree(tasks, k)
                                 IN [FreeTask EXCEPT
                                       !.kind = relationDefinitions[rels[k]].onDelete,
                                       !.pc = "view", !.id = me.id, !.rel = rels[k],
                                       !.file = RelFile(relationDefinitions[rels[k]]),
                                       !.parent = t]
                          ELSE tasks[s]],
             locks  |-> locked,
             tokens |-> tokenCounter]

\* Without the test of options.overwrite.
BeginAddAllUnchecked(t, locked) ==
  [tasks  |-> [tasks EXCEPT ![t].pc = "write", ![t].data = tasks[t].arg],
   locks  |-> locked,
   tokens |-> tokenCounter]

BeginAddAll(t, locked) ==
  LET me == tasks[t]
  IN IF files[me.file].exists /\ ~me.opt
       THEN Finished(tasks, locked, t, OperationFailed) @@ [tokens |-> tokenCounter]
       ELSE [tasks  |-> [tasks EXCEPT ![t].pc = "write", ![t].data = me.arg],
             locks  |-> locked,
             tokens |-> tokenCounter]

BeginEditAll(t, locked) ==
  [tasks  |-> [tasks EXCEPT ![t].pc = "write", ![t].data = tasks[t].arg],
   locks  |-> locked,
   tokens |-> tokenCounter]

BeginDeleteAll(t, locked) ==
  IF ~files[tasks[t].file].exists
    THEN Finished(tasks, locked, t, "ok") @@ [tokens |-> tokenCounter]
    ELSE [tasks  |-> [tasks EXCEPT ![t].pc = "write", ![t].data = <<>>],
          locks  |-> locked,
          tokens |-> tokenCounter]

\* A call waiting at acquireLock finds the lock free, takes it, reads the
\* collection and runs up to its next await.
Begin(t) ==
  /\ tasks[t].pc = "lock"
  /\ DbLockFree(tasks[t].file)
  /\ Cardinality(FreeSlots(tasks)) >=
       (IF tasks[t].kind = "deleteOne" THEN Len(RelationsOf(tasks[t].file)) ELSE 0)
  /\ LET kind   == tasks[t].kind
         data   == ParseFile(files[tasks[t].file])
         locked == [dbLocks EXCEPT ![tasks[t].file] = t]
         r == IF kind \in {"addOne", "editOne", "deleteOne"} /\ ~IsArray(files[tasks[t].file])
                THEN Finished(tasks, locked, t, OperationFailed) @@ [tokens |-> tokenCounter]
              ELSE CASE kind = "addOne"    -> BeginAddOne(t, data, locked)
                     [] kind = "editOne"   -> BeginEditOne(t, data, locked)
                     [] kind = "deleteOne" -> BeginDeleteOne(t, data, locked)
                     [] kind = "addAll"    -> BeginAddAll(t, locked)
                     [] kind = "editAll"   -> BeginEditAll(t, locked)
                     [] kind = "deleteAll" -> BeginDeleteAll(t, locked)
                     [] kind = "nanoAddOne" -> BeginNanoAddOne(t, data, locked)
     IN /\ tasks' = r.tasks
        /\ dbLocks' = r.locks
        /\ tokenCounter' = r.tokens
  /\ UNCHANGED <<files, indexFiles, relationDefinitions, files0>>
  /\ UNCHANGED notDbVars

\* atomicWrite's rename: the data file now holds what the call computed.
\* deleteRecordById filters the data it read before its relation checks.
Write(t) ==
  /\ tasks[t].pc = "write"
  /\ files' = [files EXCEPT ![tasks[t].file] =
                 File(IF tasks[t].kind = "deleteOne"
                        THEN WithoutId(tasks[t].data, tasks[t].id)
                        ELSE tasks[t].data)]
  /\ tasks' = [tasks EXCEPT ![t].pc = "index"]
  /\ UNCHANGED <<indexFiles, dbLocks, tokenCounter, relationDefinitions, files0>>
  /\ UNCHANGED notDbVars

\* The index maintenance after the write, the return and the release.
Finish(t) ==
  /\ tasks[t].pc = "index"
  /\ LET me == tasks[t]
         st == Finished(tasks, dbLocks, t, "ok")
     IN /\ indexFiles' =
             CASE me.kind = "addOne"    -> IndexAfterAdd(indexFiles, me.file, me.arg)
               [] me.kind = "editOne"   -> IndexAfterEdit(indexFiles, me.file, me.orig, me.arg, me.id)
               [] me.kind = "deleteOne" -> IndexAfterDelete(indexFiles, me.file, me.orig, me.id)
               [] me.kind = "addAll"    -> RebuildIndexesForFile(indexFiles, me.file, me.data)
               [] me.kind = "editAll"   -> RebuildIndexesForFile(indexFiles, me.file, me.data)
               [] me.kind = "deleteAll" -> DeleteIndexesForFile(indexFiles, me.file)
               [] me.kind = "nanoAddOne" -> indexFiles   \* xdbNano keeps no index
        /\ tasks' = st.tasks
        /\ dbLocks' = st.locks
  /\ UNCHANGED <<files, tokenCounter, relationDefinitions, files0>>
  /\ UNCHANGED notDbVars

(***************************************************************************)
(* Relation manager: the delete-time checks                                *)
(***************************************************************************)
\* The same query with limit: 1, as the RESTRICT check makes it.
ReferencingFirst(content, field, id) ==
  LET all == SeqFilter(ParseFile(content), LAMBDA r : LooseEq(Get(r, field), id))
  IN IF all = <<>> THEN <<>> ELSE <<all[1]>>

\* viewMoreFn(file, { filter: r => r[field] == recordId }).data
Referencing(content, field, id) ==
  SeqFilter(ParseFile(content), LAMBDA r : LooseEq(Get(r, field), id))

\* The calls a CASCADE or SET_NULL check makes, one per referencing record;
\* a call whose id validation throws never reaches acquireLock.
ChildCalls(t, related) ==
  LET me   == tasks[t]
      rel  == relationDefinitions[me.rel]
      acts == SeqFilter(related, LAMBDA r :
                /\ ValidId(Str(Get(r, "id")))
                /\ (me.kind = "SET_NULL" /\ rel.type # "N:M") => Get(r, RelField(rel)) # Null)
  IN [i \in 1..Len(acts) |->
        IF me.kind = "SET_NULL" /\ rel.type # "N:M"
          THEN [FreeTask EXCEPT !.kind = "editOne", !.pc = "lock", !.file = me.file,
                                !.id = Str(Get(acts[i], "id")), !.parent = t,
                                !.arg = [x \in {RelField(rel)} |-> Null]]
          ELSE [FreeTask EXCEPT !.kind = "deleteOne", !.pc = "lock", !.file = me.file,
                                !.id = Str(Get(acts[i], "id")), !.parent = t]]

\* viewMoreFn of a relation check returns.  RESTRICT: throws if a record
\* references the one being deleted.  CASCADE, SET_NULL: calls del.id or
\* edit.id for every referencing record and awaits them all.
View(t) ==
  /\ tasks[t].pc = "view"
  /\ LET me      == tasks[t]
         rel     == relationDefinitions[me.rel]
         related == Referencing(files[me.file], RelField(rel), me.id)
         calls   == ChildCalls(t, related)
         st == IF me.kind = "RESTRICT"
                 THEN Settle([tasks |-> tasks, locks |-> dbLocks], t, Len(related) > 0)
               ELSE IF Len(calls) = 0
                 THEN Settle([tasks |-> tasks, locks |-> dbLocks], t, FALSE)
               ELSE [tasks |-> [s \in TaskIds |->
                                  IF s = t THEN [me EXCEPT !.pc = "join", !.pending = Len(calls)]
                                  ELSE IF \E k \in 1..Len(calls) : s = NthFree(tasks, k)
                                    THEN calls[CHOOSE k \in 1..Len(calls) : s = NthFree(tasks, k)]
                                  ELSE tasks[s]],
                     locks |-> dbLocks]
     IN /\ Cardinality(FreeSlots(tasks)) >= Len(calls)
        /\ tasks' = st.tasks
        /\ dbLocks' = st.locks
  /\ UNCHANGED <<files, indexFiles, tokenCounter, relationDefinitions, files0>>
  /\ UNCHANGED notDbVars

(***************************************************************************)
(* Initial states of the store                                             *)
(***************************************************************************)
NoRelations == [n \in {} |-> FreeTask]

InitDb(fs, rels) ==
  /\ files = fs
  /\ files0 = fs
  /\ indexFiles = [p \in IndexPaths |-> NoFile]
  /\ dbLocks = [f \in Files |-> NoHolder]
  /\ tasks = [t \in TaskIds |-> FreeTask]
  /\ tokenCounter = 0
  /\ relationDefinitions = rels

InitDbVars == InitDb([f \in Files |-> NoFile], NoRelations)

(***************************************************************************)
(* Reads: view.all and view.more of the four engines                       *)
(***************************************************************************)
Engines      == {"xdb", "xdbLite", "xdbNano", "xdFiles"}
FileNotFound == "XDB_FILE_NOT_FOUND"
Num2 == "#2"             \* the number 2
NaN  == "NaN"

\* Number(v) for null and the numbers of the sort fields, and a < b on them.
ToNumber(v) == CASE v = Null -> 0 [] v = Num1 -> 1 [] v = Num2 -> 2
JsLess(a, b) == ToNumber(a) < ToNumber(b)

\* One criterion of view.more's comparator in xdb.js: valA < valB, valA >
\* valB, times the direction.
Direction(criterion) == IF Get(criterion, "order") = "desc" THEN -1 ELSE 1
CompareKey(criterion, a, b) ==
  LET valA == Get(a, criterion.key) valB == Get(b, criterion.key)
  IN (IF JsLess(valA, valB) THEN -1 ELSE IF JsLess(valB, valA) THEN 1 ELSE 0)
       * Direction(criterion)

\* One criterion of viewMore's comparator in xdbLite.js and xdFiles.
LiteCompareKey(criterion, a, b) ==
  LET valA == Get(a, criterion.key) valB == Get(b, criterion.key)
  IN IF valA = valB THEN 0
     ELSE IF valA \in {Undef, Null} THEN 1 * Direction(criterion)
     ELSE IF valB \in {Undef, Null} THEN -1 * Direction(criterion)
     ELSE (IF JsLess(valA, valB) THEN -1 ELSE 1) * Direction(criterion)

\* The comparator passed to data.sort: the first criterion that tells a and
\* b apart decides.
Compare(engine, sortCriteria, a, b) ==
  LET C[i \in 1..(Len(sortCriteria) + 1)] ==
        IF i > Len(sortCriteria) THEN 0
        ELSE LET c == IF engine = "xdb" THEN CompareKey(sortCriteria[i], a, b)
                                        ELSE LiteCompareKey(sortCriteria[i], a, b)
             IN IF c # 0 THEN c ELSE C[i + 1]
  IN C[1]

\* data.sort(comparator): Array.prototype.sort is stable.
Sort(engine, sortCriteria, data) ==
  LET S[i \in 0..Len(data)] ==
        IF i = 0 THEN <<>>
        ELSE LET s == S[i - 1]
                 k == Cardinality({j \in 1..Len(s) :
                                     Compare(engine, sortCriteria, s[j], data[i]) <= 0})
             IN SubSeq(s, 1, k) \o <<data[i]>> \o SubSeq(s, k + 1, Len(s))
  IN S[Len(data)]

\* data.slice(from, to)
Slice(data, from, to) ==
  SubSeq(data, from + 1, IF to < Len(data) THEN to ELSE Len(data))

\* The filter functions the caller passes.
ApplyFilter(name, data) ==
  IF name = "a is 1" THEN SeqFilter(data, LAMBDA r : Get(r, "a") = Num1) ELSE data

\* view.more of xdb.js after safeParseJSON: filter, sort, slice; the result
\* is { path, data }.
ViewMore(data, options) ==
  LET filtered == IF Has(options, "filter") THEN ApplyFilter(options.filter, data) ELSE data
      sorted   == IF Has(options, "sort") THEN Sort("xdb", options.sort, filtered) ELSE filtered
      skip     == IF Has(options, "skip") /\ options.skip > 0 THEN options.skip ELSE 0
  IN [code |-> "ok",
      data |-> IF Has(options, "limit")
                 THEN Slice(sorted, skip, skip + options.limit)
                 ELSE Slice(sorted, skip, Len(sorted))]

\* viewMore of xdbLite.js and xdFiles after safeParseJSON; the result is
\* { path, data, meta }.
LiteViewMore(data, options) ==
  LET filtered == IF Has(options, "filter") THEN ApplyFilter(options.filter, data) ELSE data
      sorted   == IF Has(options, "sort") THEN Sort("xdbLite", options.sort, filtered) ELSE filtered
      skip     == IF Has(options, "skip") /\ options.skip > 0 THEN options.skip ELSE 0
      limit    == IF Has(options, "limit") /\ options.limit > 0 THEN options.limit ELSE Len(sorted)
  IN [code |-> "ok",
      data |-> Slice(sorted, skip, skip + limit),
      meta |-> [total |-> Len(sorted), skip |-> skip, limit |-> limit,
                page |-> IF limit = 0 THEN NaN ELSE (skip \div limit) + 1,
                totalPages |-> IF limit = 0 THEN NaN ELSE (Len(sorted) + limit - 1) \div limit]]

\* What data.sort leaves in the array safeParseJSON returned, which is the
\* array in the cache: sorted in place unless filter made a new array.
SortedInPlace(data, options) ==
  IF Has(options, "sort") /\ ~Has(options, "filter")
    THEN Sort("xdbLite", options.sort, data) ELSE data

ViewIdle == [op |-> "none", options |-> <<>>, result |-> [code |-> "none"]]

InitViewVars ==
  /\ viewEngine = "xdb"
  /\ viewCaching = FALSE
  /\ viewFile = NoFile
  /\ viewCache = NoFile
  /\ viewDescriptor = "none"
  /\ viewCall = ViewIdle

InitAuditVars == verification = [done |-> FALSE, inconsistencies |-> <<>>]

\* The relation cache: no entry, or an entry whose timestamp is within the TTL
\* until it expires.
CacheKeys   == {"userPosts", "userEdits", "userTags"} \X {"u1"}
NoEntry     == [cached |-> FALSE]
Entry(data) == [cached |-> TRUE, data |-> data, expired |-> FALSE]
RelatedIdle == [pc |-> "idle", relationName |-> "", localId |-> "", foreignIds |-> {},
                overlapped |-> FALSE, result |-> [code |-> "none"]]

InitRelatedVars ==
  /\ enableRelationCache = FALSE
  /\ relationCache = [k \in CacheKeys |-> NoEntry]
  /\ relatedCall = RelatedIdle

\* The relation keys of the library, `${fromCollection}:${fromId}:${toCollection}:${toField}`,
\* for the posts of Alice.
RelationKey(fromCollection, fromId, toCollection, toField) ==
  <<fromCollection, fromId, toCollection, toField>>
LibKeys == {RelationKey("users.json", "u1", "posts", f) : f \in {"authorId", "editorId"}}
LibIdle == [n |-> 0, toField |-> "", data |-> <<>>]

InitLibVars ==
  /\ relationsCache = [k \in LibKeys |-> NoEntry]
  /\ libCall = LibIdle

BatchPaths == {"a.txt", "b.txt"}
BatchIdle  == [pc |-> "build", operations |-> <<>>, next |-> 0, rollback |-> <<>>,
               before |-> <<>>, result |-> "none"]

InitBatchVars ==
  /\ batchFiles = [p \in BatchPaths |-> Absent]
  /\ batch = BatchIdle

NoListener == [event |-> "none", kind |-> "none"]
HookIdle   == [pc |-> "idle", arg |-> <<>>, before |-> NoFile, data |-> <<>>,
               result |-> [code |-> "none"]]

InitHookVars ==
  /\ hookEngine = "xdb"
  /\ listener = NoListener
  /\ hookFile = NoFile
  /\ callerRecord = <<>>
  /\ timers = <<>>
  /\ hookCall = HookIdle

DelIdle == [pc |-> "idle", kind |-> "none", file |-> NoPath, id |-> "", field |-> "",
            parent |-> NoParent, pending |-> 0, data |-> <<>>, result |-> "none"]
InitDelVars == del = [p \in LockProcs |-> DelIdle]

NLinkCalls == 2
LinkCalls  == 1..NLinkCalls
LinkIdle   == [pc |-> "idle", id1 |-> "", id2 |-> "", data |-> <<>>, result |-> "none"]
InitLinkVars ==
  /\ linkTable = <<>>
  /\ linkLock = NoHolder
  /\ linkCall = [p \in LinkCalls |-> LinkIdle]

InitExtVars ==
  /\ InitViewVars /\ InitAuditVars /\ InitRelatedVars /\ InitLibVars /\ InitBatchVars
  /\ InitHookVars /\ InitDelVars /\ InitLinkVars

\* The result of a view: what safeParseJSON read, or the error.
Returned(content) ==
  IF IsArray(content) THEN [code |-> "ok", data |-> content.data]
                      ELSE [code |-> "ok", data |-> <<>>, object |-> TRUE]
Thrown(code) == [code |-> code]

\* view.all(filePath) of xdb.js and xdbNano.js: safeParseJSON reads the file,
\* a missing file reads as [].
ViewAll ==
  /\ viewEngine \in {"xdb", "xdbNano"}
  /\ viewCall' = [op |-> "all", options |-> <<>>,
                  result |-> IF viewFile.exists THEN Returned(viewFile) ELSE Returned(File(<<>>))]
  /\ UNCHANGED <<viewEngine, viewCaching, viewFile, viewCache, viewDescriptor>>
  /\ UNCHANGED notViewVars

\* view.more(filePath, options) of xdb.js
ViewMoreCall(options) ==
  /\ viewEngine = "xdb"
  /\ viewCall' = [op |-> "more", options |-> options,
                  result |-> IF ~IsArray(viewFile) THEN Thrown(OperationFailed)
                             ELSE ViewMore(ParseFile(viewFile), options)]
  /\ UNCHANGED <<viewEngine, viewCaching, viewFile, viewCache, viewDescriptor>>
  /\ UNCHANGED notViewVars

\* safeParseJSON of xdbLite.js and xdFiles: the cached array if there is one,
\* else the file, which is then cached; a missing file reads as [] in xdbLite
\* and throws FILE_NOT_FOUND in xdFiles.  read is what the caller gets, cache
\* the entry afterwards.
CachedParse ==
  IF viewCaching /\ viewCache.exists THEN [read |-> Returned(viewCache), cache |-> viewCache]
  ELSE IF viewFile.exists
    THEN [read |-> Returned(viewFile), cache |-> IF viewCaching THEN viewFile ELSE viewCache]
  ELSE [read |-> IF viewEngine = "xdFiles" THEN Thrown(FileNotFound) ELSE Returned(File(<<>>)),
        cache |-> viewCache]

\* viewAll(filePath) of xdbLite.js
LiteViewAll ==
  /\ viewEngine = "xdbLite"
  /\ viewCall' = [op |-> "all", options |-> <<>>, result |-> CachedParse.read]
  /\ viewCache' = CachedParse.cache
  /\ UNCHANGED <<viewEngine, viewCaching, viewFile, viewDescriptor>>
  /\ UNCHANGED notViewVars

\* viewAll(filePath) of xdFiles: getFileDescriptor analyzes the path once and
\* keeps the descriptor; a descriptor that does not exist is FILE_NOT_FOUND.
FilesViewAll ==
  LET descriptor == IF viewDescriptor # "none" THEN viewDescriptor
                    ELSE IF viewFile.exists THEN "exists" ELSE "missing"
  IN /\ viewEngine = "xdFiles"
     /\ viewDescriptor' = descriptor
     /\ IF descriptor = "missing"
          THEN /\ viewCall' = [op |-> "all", options |-> <<>>, result |-> Thrown(FileNotFound)]
               /\ UNCHANGED viewCache
          ELSE /\ viewCall' = [op |-> "all", options |-> <<>>, result |-> CachedParse.read]
               /\ viewCache' = CachedParse.cache
     /\ UNCHANGED <<viewEngine, viewCaching, viewFile>>
     /\ UNCHANGED notViewVars

\* viewMore(filePath, options) of xdbLite.js and xdFiles
LiteViewMoreCall(options) ==
  LET r == CachedParse
  IN /\ viewEngine \in {"xdbLite", "xdFiles"}
     /\ IF r.read.code # "ok" THEN
          /\ viewCall' = [op |-> "more", options |-> options, result |-> r.read]
          /\ UNCHANGED viewCache
        ELSE IF Has(r.read, "object") THEN
          /\ viewCall' = [op |-> "more", options |-> options, result |-> Thrown(OperationFailed)]
          /\ viewCache' = r.cache
        ELSE
          /\ viewCall' = [op |-> "more", options |-> options,
                          result |-> LiteViewMore(r.read.data, options)]
          /\ viewCache' = IF r.cache.exists /\ IsArray(r.cache)
                            THEN File(SortedInPlace(r.cache.data, options)) ELSE r.cache
     /\ UNCHANGED <<viewEngine, viewCaching, viewFile, viewDescriptor>>
     /\ UNCHANGED notViewVars

\* del.all(filePath): an existing file is rewritten as [] by atomicWrite,
\* which invalidates the cache entry; a missing file is left missing.
ViewDeleteAll ==
  /\ viewEngine # "xdbNano"
  /\ viewFile.exists
  /\ viewFile' = File(<<>>)
  /\ viewCache' = NoFile
  /\ UNCHANGED <<viewEngine, viewCaching, viewDescriptor, viewCall>>
  /\ UNCHANGED notViewVars

\* del.dir(dirPath) of the directory that holds the collection: fs.rm, and
\* nothing else.
ViewDelDir ==
  /\ viewEngine # "xdbNano"
  /\ viewFile.exists
  /\ viewFile' = NoFile
  /\ UNCHANGED <<viewEngine, viewCaching, viewCache, viewDescriptor, viewCall>>
  /\ UNCHANGED notViewVars

\* The collections: up to MaxViewRecs records with sort fields a and b, and
\* the five-record collection of the pagination example.
MaxViewRecs == 2
ViewIds     == <<"r1", "r2", "r3", "r4", "r5">>
ViewArrays ==
  UNION {{[i \in 1..n |-> [id |-> ViewIds[i], a |-> f[i][1], b |-> f[i][2]]] :
            f \in [1..n -> {Num1, Num2, Null} \X {Num1, Num2}]} : n \in 0..MaxViewRecs}
FiveRecords == [i \in 1..5 |-> [id |-> ViewIds[i], a |-> Num1, b |-> Num2]]

\* The options the caller passes to view.more.
SortOptions ==
  {<<>>} \cup {[sort |-> <<[key |-> "a", order |-> o]>>] : o \in {"asc", "desc"}}
         \cup {[sort |-> <<[key |-> "b"], [key |-> "a", order |-> o]>>] : o \in {"asc", "desc"}}
PageOptions ==
  {<<>>, [skip |-> 2, limit |-> 2], [skip |-> 1], [limit |-> 1], [limit |-> 0]}
ViewOptions ==
  {Merge(s, p) : s \in SortOptions, p \in PageOptions}
    \cup {Merge([filter |-> "a is 1"], s) : s \in SortOptions}

(***************************************************************************)
(* Lite engine: writers and an unlocked reader on one cached collection    *)
(***************************************************************************)
NLiteWriters == 2
LiteWriters  == 1..NLiteWriters

LwIdle == [pc |-> "idle", snap |-> <<>>, result |-> "none"]
LrIdle == [pc |-> "idle", got |-> NoFile]
VoIdle == [pc |-> "idle", id |-> "", after |-> {}, got |-> NoFile, result |-> "none"]

\* The ids of the collection: the stored record's and the writers'.
LiteIds == {"k0"} \cup {KeyTable[p] : p \in LiteWriters}

\* The record writer p adds: an id of its own.
LiteRecord(p) == [id |-> KeyTable[p]]

InitLiteVars ==
  /\ cachingEnabled = FALSE
  /\ liteFile = NoFile
  /\ dataCache = NoFile
  /\ liteLock = NoHolder
  /\ lw = [p \in LiteWriters |-> LwIdle]
  /\ lr = LrIdle
  /\ serial = <<>>
  /\ recordCache = [id \in LiteIds |-> NoEntry]
  /\ vo = VoIdle
  /\ committed = {liteFile}

\* getCachedData(filePath): the cached array, when caching is on and the
\* entry is there.
CacheHit == cachingEnabled /\ dataCache.exists

\* setCachedData(filePath, data) and invalidateCache(filePath)
SetCachedData(data) == IF cachingEnabled THEN File(data) ELSE dataCache
InvalidateCache     == NoFile

\* addRecordById once safeParseJSON has returned data, which is the cached
\* array itself when cached is TRUE: the duplicate test, data.push (in place)
\* and JSON.stringify(data) for atomicWrite.
LiteAdd(p, data, cached) ==
  IF HasId(data, LiteRecord(p).id)
    THEN /\ lw' = [lw EXCEPT ![p] = [pc |-> "done", snap |-> <<>>, result |-> RecordExists]]
         /\ liteLock' = NoHolder
         /\ dataCache' = IF cached THEN SetCachedData(data) ELSE dataCache
         /\ UNCHANGED serial
    ELSE /\ lw' = [lw EXCEPT ![p] = [pc |-> "write", snap |-> Append(data, LiteRecord(p)),
                                      result |-> "none"]]
         /\ liteLock' = p
         /\ dataCache' = IF cached THEN SetCachedData(Append(data, LiteRecord(p)))
                                   ELSE dataCache
         /\ serial' = Append(serial, LiteRecord(p))

\* acquireLock returns; safeParseJSON answers from the cache or starts readFile.
LiteBegin(p) ==
  /\ lw[p].pc = "idle"
  /\ liteLock = NoHolder
  /\ IF CacheHit
       THEN LiteAdd(p, dataCache.data, TRUE)
       ELSE /\ lw' = [lw EXCEPT ![p].pc = "read"]
            /\ liteLock' = p
            /\ UNCHANGED <<dataCache, serial>>
  /\ UNCHANGED <<cachingEnabled, liteFile, lr>>
  /\ UNCHANGED <<recordCache, vo>>
  /\ UNCHANGED committed
  /\ UNCHANGED notLiteVars

\* readFile returns to the writer: the parsed array goes into the cache (a
\* missing file reads as [] and is not cached), then the record is added.
LiteRead(p) ==
  /\ lw[p].pc = "read"
  /\ LiteAdd(p, ParseFile(liteFile), liteFile.exists)
  /\ UNCHANGED <<cachingEnabled, liteFile, lr>>
  /\ UNCHANGED <<recordCache, vo>>
  /\ UNCHANGED committed
  /\ UNCHANGED notLiteVars

\* atomicWrite's rename
LiteRename(p) ==
  /\ lw[p].pc = "write"
  /\ liteFile' = File(lw[p].snap)
  /\ committed' = committed \cup {File(lw[p].snap)}
  /\ lw' = [lw EXCEPT ![p].pc = "renamed"]
  /\ UNCHANGED <<cachingEnabled, dataCache, liteLock, lr, serial>>
  /\ UNCHANGED <<recordCache, vo>>
  /\ UNCHANGED notLiteVars

\* atomicWrite throws before its rename (open, writeFile, sync or rename has
\* failed): the temporary file is removed, invalidateCache is not reached,
\* add.id throws IO_ERROR and releases the lock.
LiteWriteFail(p) ==
  /\ lw[p].pc = "write"
  /\ lw' = [lw EXCEPT ![p].pc = "done", ![p].result = IOError]
  /\ liteLock' = NoHolder
  /\ serial' = SeqFilter(serial, LAMBDA r : r # LiteRecord(p))
  /\ UNCHANGED <<cachingEnabled, liteFile, dataCache, lr, recordCache, vo, committed>>
  /\ UNCHANGED notLiteVars

\* atomicWrite resumes after the rename: invalidateCache(filePath), which
\* deletes the entry of the file and the entries of its records, return, release.
LiteAfterWrite(p) ==
  /\ lw[p].pc = "renamed"
  /\ dataCache' = IF cachingEnabled THEN InvalidateCache ELSE dataCache
  /\ recordCache' = IF cachingEnabled THEN [id \in LiteIds |-> NoEntry] ELSE recordCache
  /\ liteLock' = NoHolder
  /\ lw' = [lw EXCEPT ![p].pc = "done", ![p].result = "ok"]
  /\ UNCHANGED <<cachingEnabled, liteFile, lr, serial, vo>>
  /\ UNCHANGED committed
  /\ UNCHANGED notLiteVars

\* viewAll without the lock: a cache hit returns at once, a miss starts readFile.
LiteViewCall ==
  /\ lr.pc = "idle"
  /\ lr' = IF CacheHit THEN [pc |-> "idle", got |-> dataCache] ELSE [pc |-> "reading", got |-> NoFile]
  /\ UNCHANGED <<cachingEnabled, liteFile, dataCache, liteLock, lw, serial>>
  /\ UNCHANGED <<recordCache, vo>>
  /\ UNCHANGED committed
  /\ UNCHANGED notLiteVars

\* The reader's readFile reads the file.
LiteViewIO ==
  /\ lr.pc = "reading"
  /\ lr' = [pc |-> "loaded", got |-> liteFile]
  /\ UNCHANGED <<cachingEnabled, liteFile, dataCache, liteLock, lw, serial>>
  /\ UNCHANGED <<recordCache, vo>>
  /\ UNCHANGED committed
  /\ UNCHANGED notLiteVars

\* The reader resumes with what readFile read: setCachedData(parsedData).
LiteViewResume ==
  /\ lr.pc = "loaded"
  /\ dataCache' = IF lr.got.exists THEN SetCachedData(lr.got.data) ELSE dataCache
  /\ lr' = [lr EXCEPT !.pc = "idle"]
  /\ UNCHANGED <<cachingEnabled, liteFile, liteLock, lw, serial>>
  /\ UNCHANGED <<recordCache, vo>>
  /\ UNCHANGED committed
  /\ UNCHANGED notLiteVars

\* now - cached.timestamp > cacheTTL: the entry has expired.
LiteCacheExpire ==
  /\ dataCache.exists
  /\ dataCache' = NoFile
  /\ UNCHANGED <<cachingEnabled, liteFile, liteLock, lw, lr, serial>>
  /\ UNCHANGED <<recordCache, vo>>
  /\ UNCHANGED committed
  /\ UNCHANGED notLiteVars

\* viewRecordById once safeParseJSON has returned data: data.find, then
\* setCachedData(filePath, record, recordId) and the record, or RECORD_NOT_FOUND.
LiteFind(call, data, got) ==
  IF HasId(data, call.id)
    THEN /\ vo' = [call EXCEPT !.pc = "done", !.got = got,
                                !.result = [record |-> data[FindIndex(data, call.id)]]]
         /\ recordCache' = IF cachingEnabled
                             THEN [recordCache EXCEPT ![call.id] = Entry(data[FindIndex(data, call.id)])]
                             ELSE recordCache
    ELSE /\ vo' = [call EXCEPT !.pc = "done", !.got = got, !.result = [code |-> RecordNotFound]]
         /\ UNCHANGED recordCache

\* viewRecordById(filePath, id) without the lock: the cached record, or
\* safeParseJSON, which answers from the cached array or starts readFile.
LiteViewOneCall(id) ==
  /\ vo.pc \in {"idle", "done"}
  /\ LET call == [VoIdle EXCEPT !.id = id,
                     !.after = {p \in LiteWriters :
                                  lw[p].result = "ok" /\ LiteRecord(p).id = id}]
     IN IF cachingEnabled /\ recordCache[id] # NoEntry
          THEN /\ vo' = [call EXCEPT !.pc = "done", !.result = [record |-> recordCache[id].data]]
               /\ UNCHANGED recordCache
          ELSE IF CacheHit
            THEN LiteFind(call, dataCache.data, dataCache)
            ELSE /\ vo' = [call EXCEPT !.pc = "reading"]
                 /\ UNCHANGED recordCache
  /\ UNCHANGED <<cachingEnabled, liteFile, dataCache, liteLock, lw, lr, serial>>
  /\ UNCHANGED committed
  /\ UNCHANGED notLiteVars

\* The readFile of viewRecordById reads the file.
LiteViewOneIO ==
  /\ vo.pc = "reading"
  /\ vo' = [vo EXCEPT !.pc = "loaded", !.got = liteFile]
  /\ UNCHANGED <<cachingEnabled, liteFile, dataCache, liteLock, lw, lr, serial, recordCache>>
  /\ UNCHANGED committed
  /\ UNCHANGED notLiteVars

\* viewRecordById resumes with what readFile read: setCachedData(parsedData)
\* (a missing file reads as [] and is not cached), then the search.
LiteViewOneResume ==
  /\ vo.pc = "loaded"
  /\ dataCache' = IF vo.got.exists THEN SetCachedData(vo.got.data) ELSE dataCache
  /\ LiteFind(vo, ParseFile(vo.got), vo.got)
  /\ UNCHANGED <<cachingEnabled, liteFile, liteLock, lw, lr, serial>>
  /\ UNCHANGED committed
  /\ UNCHANGED notLiteVars

\* now - cached.timestamp > cacheTTL for the entry of a record
LiteRecordExpire(id) ==
  /\ recordCache[id] # NoEntry
  /\ recordCache' = [recordCache EXCEPT ![id] = NoEntry]
  /\ UNCHANGED <<cachingEnabled, liteFile, dataCache, liteLock, lw, lr, serial, vo>>
  /\ UNCHANGED committed
  /\ UNCHANGED notLiteVars

InitLite ==
  /\ InitLockVars /\ InitWriteVars /\ InitExtVars /\ InitDbVars
  /\ cachingEnabled \in BOOLEAN
  /\ liteFile \in {NoFile, File(<<>>), File(<<[id |-> "k0"]>>)}
  /\ dataCache = NoFile
  /\ liteLock = NoHolder
  /\ lw = [p \in LiteWriters |-> LwIdle]
  /\ lr = LrIdle
  /\ serial = ParseFile(liteFile)
  /\ recordCache = [id \in LiteIds |-> NoEntry]
  /\ vo = VoIdle
  /\ committed = {liteFile}

NextLite ==
  \/ \E p \in LiteWriters : LiteBegin(p) \/ LiteRead(p) \/ LiteRename(p) \/ LiteAfterWrite(p)
  \/ LiteViewCall
  \/ LiteViewIO
  \/ LiteViewResume
  \/ LiteCacheExpire

SpecLite == InitLite /\ [][NextLite]_vars

\* add.id calls whose atomicWrite may fail, and an unlocked view.all
NextLiteFault ==
  \/ NextLite
  \/ \E p \in LiteWriters : LiteWriteFail(p)

SpecLiteFault == InitLite /\ [][NextLiteFault]_vars

\* add.id calls, an unlocked view.all and view.id calls on the collection
NextLiteTrip ==
  \/ NextLite
  \/ \E id \in LiteIds : LiteViewOneCall(id)
  \/ LiteViewOneIO
  \/ LiteViewOneResume
  \/ \E id \in LiteIds : LiteRecordExpire(id)

SpecLiteTrip == InitLite /\ [][NextLiteTrip]_vars

(***************************************************************************)
(* Concurrent addOne calls on one empty collection                         *)
(***************************************************************************)
NAdders  == 3
Adders   == 1..NAdders

\* What adder t may pass: a record without an id, or one with an id of its own,
\* as a string or (the first adder) as a number.
AdderRecords(t) ==
  {[f |-> "x"], [f |-> "y"], [id |-> KeyTable[t], f |-> "x"]}
    \cup (IF t = 1 THEN {[id |-> Num1, f |-> "y"]} ELSE {})

InitAdd ==
  /\ InitLockVars /\ InitWriteVars /\ InitExtVars /\ InitLiteVars
  /\ \E c \in {NoFile, File(<<>>)} :
       InitDb([f \in Files |-> IF f = "users.json" THEN c ELSE NoFile], NoRelations)

NextAdd ==
  \E t \in Adders :
    \/ \E rec \in AdderRecords(t) : tasks[t].pc = "free" /\ CallAddOne(t, "users", rec)
    \/ Begin(t)
    \/ Write(t)
    \/ Finish(t)

SpecAdd == InitAdd /\ [][NextAdd]_vars

(***************************************************************************)
(* One caller running the six mutations one after the other                *)
(***************************************************************************)
MaxRecs == 2

\* The records the caller passes to addOne, the patches it passes to editOne
\* and the arrays it passes to addAll and editAll.  "f" is the indexed field.
StoreRecords ==
  {[f |-> "x"], [id |-> "a", f |-> "x"], [id |-> Num1, f |-> "y"],
   [id |-> "a", f |-> "constructor"], [id |-> "t2"]}
StorePatches ==
  {[f |-> "y"], [f |-> "constructor"], [id |-> "z", f |-> "x"]}
StoreArrays ==
  {<<>>,
   <<[id |-> "a", f |-> "x"], [id |-> "b", f |-> "x"]>>,
   <<[f |-> "y"], [id |-> Num1, f |-> "y"]>>,
   <<[id |-> "a", f |-> "x"], [id |-> "a", f |-> "y"]>>,
   <<[id |-> "", f |-> "x"]>>}

Users == ParseFile(files["users.json"])

\* The ids the caller passes to editOne and deleteOne: the ids in the
\* collection, as strings, one that is not there and the empty string.
StoreIds == {Str(Get(Users[i], "id")) : i \in 1..Len(Users)} \cup {"zz", ""}

InitStore ==
  /\ InitLockVars /\ InitWriteVars /\ InitExtVars /\ InitLiteVars
  /\ InitDb([f \in Files |-> NoFile], NoRelations)

\* The caller awaits each call before it makes the next one.
NextStore ==
  \/ \E rec \in StoreRecords :
       /\ Quiescent /\ Len(Users) < MaxRecs /\ tokenCounter < MaxTokens
       /\ CallAddOne(1, "users", rec)
  \/ \E id \in StoreIds, patch \in StorePatches :
       Quiescent /\ CallEditOne(1, "users.json", id, patch)
  \/ \E id \in StoreIds :
       Quiescent /\ CallDeleteOne(1, "users", id)
  \/ \E recs \in StoreArrays, overwrite \in BOOLEAN :
       Quiescent /\ tokenCounter < MaxTokens /\ CallAddAll(1, "users", recs, overwrite)
  \/ \E recs \in StoreArrays :
       Quiescent /\ CallEditAll(1, "users.json", recs)
  \/ Quiescent /\ CallDeleteAll(1, "users")
  \/ Begin(1)
  \/ Write(1)
  \/ Finish(1)

SpecStore == InitStore /\ [][NextStore]_vars

(***************************************************************************)
(* One call on a stored collection, and a second caller holding its lock   *)
(***************************************************************************)
\* The result of a mutation whose index maintenance threw after the data
\* file was written: the caller's catch logs a warning and the call returns.
IndexErrorThrown == OperationFailed
IndexErrorCaught == "ok"

\* acquireLock of the data file throws: the path is locked and the deadline
\* of the call has passed.  release is still null, nothing was read.  (The
\* loop tests the deadline each time the call is woken; here the throw may
\* come whenever the path is locked.)
LockTimeout(t) ==
  /\ tasks[t].pc = "lock"
  /\ ~DbLockFree(tasks[t].file)
  /\ LET st == Finished(tasks, dbLocks, t, OperationFailed)
     IN /\ tasks' = st.tasks
        /\ dbLocks' = st.locks
  /\ UNCHANGED <<files, indexFiles, tokenCounter, relationDefinitions, files0>>
  /\ UNCHANGED notDbVars

\* acquireLock of the index file throws in updateIndex, removeFromIndex or
\* rebuildIndexesForFile: the index file keeps its content.
IndexTimeout(t) ==
  /\ tasks[t].pc = "index"
  /\ tasks[t].kind # "deleteAll"
  /\ IndexConfig(tasks[t].file) # <<>>
  /\ LET st == Finished(tasks, dbLocks, t, IndexErrorCaught)
     IN /\ tasks' = st.tasks
        /\ dbLocks' = st.locks
  /\ UNCHANGED <<files, indexFiles, tokenCounter, relationDefinitions, files0>>
  /\ UNCHANGED notDbVars

\* The collections the call finds: no file, a JSON object, or up to MaxRecs
\* records with distinct ids, with the index that rebuildIndexesForFile gives
\* them.
OnceRecords == {[id |-> "a", f |-> "x"], [id |-> "a"], [id |-> "b", f |-> "x"],
                [id |-> "b", f |-> "y"], [id |-> "c", f |-> "y"]}
OnceArrays ==
  {a \in UNION {[1..n -> OnceRecords] : n \in 0..MaxRecs} :
     \A i, j \in 1..Len(a) : i # j => a[i].id # a[j].id}
Users0 == ParseFile(files0["users.json"])
Index0 ==
  IF files0["users.json"].exists
    THEN RebuildIndexesForFile([p \in IndexPaths |-> NoFile], "users.json", Users0)
    ELSE [p \in IndexPaths |-> NoFile]

\* The second caller adds a record under an id of its own.
Holder == 2
HolderRecord == [id |-> "h", f |-> "x"]

\* The patches of edit.id here: those of StorePatches and one that carries
\* another id and a field no stored record has.
OncePatches == StorePatches \cup {[id |-> "b", g |-> "n"]}

InitOnce ==
  /\ InitLockVars /\ InitWriteVars /\ InitExtVars /\ InitLiteVars
  /\ \E c \in {NoFile, ObjectFile} \cup {File(a) : a \in OnceArrays} :
       /\ files = [f \in Files |-> IF f = "users.json" THEN c ELSE NoFile]
       /\ files0 = files
  /\ indexFiles = Index0
  /\ dbLocks = [f \in Files |-> NoHolder]
  /\ tasks = [t \in TaskIds |-> FreeTask]
  /\ tokenCounter = 0
  /\ relationDefinitions = NoRelations

NextOnce ==
  \/ /\ tasks[1].pc = "free"
     /\ \/ \E rec \in StoreRecords : CallAddOne(1, "users", rec)
        \/ \E id \in StoreIds, patch \in OncePatches : CallEditOne(1, "users.json", id, patch)
        \/ \E id \in StoreIds : CallDeleteOne(1, "users", id)
        \/ \E recs \in StoreArrays, overwrite \in BOOLEAN : CallAddAll(1, "users", recs, overwrite)
        \/ \E recs \in StoreArrays : CallEditAll(1, "users.json", recs)
        \/ CallDeleteAll(1, "users")
  \/ tasks[Holder].pc = "free" /\ CallAddOne(Holder, "users", HolderRecord)
  \/ \E t \in {1, Holder} :
       Begin(t) \/ Write(t) \/ Finish(t) \/ LockTimeout(t) \/ IndexTimeout(t)

SpecOnce == InitOnce /\ [][NextOnce]_vars

\* One add.id of xdbNano on the same collections.
NextNano ==
  \/ \E rec \in StoreRecords \cup OnceRecords :
       tasks[1].pc = "free" /\ CallNanoAddOne(1, "users", rec)
  \/ Begin(1)
  \/ Write(1)
  \/ Finish(1)

SpecNano == InitOnce /\ [][NextNano]_vars

(***************************************************************************)
(* Deleting a user whose posts reference it                                *)
(***************************************************************************)
PostIds  == <<"p1", "p2", "p3", "p4">>
Policies == {"RESTRICT", "CASCADE", "SET_NULL"}

Alice == [id |-> "u1", name |-> "Alice"]
Bob   == [id |-> "u2", name |-> "Bob"]

\* defineRelation(name, { type: "1:N", localFile: "users", localField: "id",
\*                        foreignFile: "posts", foreignField: field, onDelete })
OneToMany(field, onDelete) ==
  [type |-> "1:N", localFile |-> EnsureJsonExtension("users"), localField |-> "id",
   foreignFile |-> EnsureJsonExtension("posts"), foreignField |-> field,
   junctionFile |-> NoPath, junctionLocalField |-> "", junctionForeignField |-> "",
   onDelete |-> onDelete]

\* The posts collections: up to MaxPosts posts, each with an author (Alice,
\* Bob or null) and an editor (Alice or null).
PostRefs == [authorId : {"u1", "u2", Null}, editorId : {"u1", Null}]
PostsOf(refs) ==
  [i \in 1..Len(refs) |-> [id |-> PostIds[i], title |-> "T",
                            authorId |-> refs[i].authorId, editorId |-> refs[i].editorId]]

InitRel ==
  /\ InitLockVars /\ InitWriteVars /\ InitExtVars /\ InitLiteVars
  /\ \E n \in 0..MaxPosts : \E refs \in [1..n -> PostRefs] :
     \E onPosts \in Policies, onEdits \in Policies \cup {"none"} :
       InitDb([f \in Files |-> CASE f = "users.json" -> File(<<Alice, Bob>>)
                                  [] f = "posts.json" -> File(PostsOf(refs))
                                  [] OTHER -> NoFile],
              IF onEdits = "none"
                THEN [r \in {"userPosts"} |-> OneToMany("authorId", onPosts)]
                ELSE [r \in {"userPosts", "userEdits"} |->
                        IF r = "userPosts" THEN OneToMany("authorId", onPosts)
                                           ELSE OneToMany("editorId", onEdits)])

\* The application deletes one user, Alice or one that does not exist; the
\* relation checks and the deletes and edits they call run as they may.
NextRel ==
  \/ \E id \in {"u1", "u3"} : tasks[1].pc = "free" /\ CallDeleteOne(1, "users", id)
  \/ \E t \in TaskIds : Begin(t) \/ View(t) \/ Write(t) \/ Finish(t)

SpecRel == InitRel /\ [][NextRel]_vars

(***************************************************************************)
(* Relations library: cascadeDelete                                        *)
(***************************************************************************)
\* One entry of cascadeDelete's relations option.
RelationOptions ==
  [type : {"oneToMany"}, toCollection : {"posts"},
   toField : {"authorId", "editorId"}, onDelete : {"cascade", "setNull"}]

\* cascadeDelete({ collection, id, relations })
CallCascadeDelete(t, collection, id, relations) ==
  /\ tasks[t].pc = "free"
  /\ tasks' = [tasks EXCEPT ![t] = [FreeTask EXCEPT !.kind = "cascadeDelete", !.pc = "next",
                                      !.file = EnsureJsonExtension(collection),
                                      !.id = id, !.arg = relations]]
  /\ UNCHANGED <<files, indexFiles, dbLocks, tokenCounter, relationDefinitions, files0>>
  /\ UNCHANGED notDbVars

\* for (const relation of relations): a one-to-many relation is queried,
\* another one is skipped; after the last one the record itself is deleted.
CascadeNext(t) ==
  /\ tasks[t].kind = "cascadeDelete" /\ tasks[t].pc = "next"
  /\ LET me == tasks[t] slot == NthFree(tasks, 1)
     IN tasks' =
          IF me.arg = <<>> /\ ~ValidId(Str(me.id))
            THEN [tasks EXCEPT ![t].pc = "done", ![t].result = OperationFailed]
          ELSE IF me.arg = <<>>
            THEN [tasks EXCEPT
                    ![t] = [me EXCEPT !.pc = "primary", !.pending = 1],
                    ![slot] = [FreeTask EXCEPT !.kind = "deleteOne", !.pc = "lock",
                                 !.file = me.file, !.id = Str(me.id), !.parent = t]]
          ELSE IF Head(me.arg).type = "oneToMany"
            THEN [tasks EXCEPT ![t].pc = "related"]
          ELSE [tasks EXCEPT ![t].arg = Tail(@)]
  /\ UNCHANGED <<files, indexFiles, dbLocks, tokenCounter, relationDefinitions, files0>>
  /\ UNCHANGED notDbVars

\* getCachedRelation(key): the data of an entry within the TTL
GetCachedRelation(cache, key) == cache[key].cached /\ ~cache[key].expired

\* getRelated: the cached data, or view.more(toCollection, { filter: r =>
\* r[toField] === fromId }).data, which goes into the cache.
LibRelated(cache, fs, key) ==
  IF GetCachedRelation(cache, key)
    THEN cache[key].data
    ELSE SeqFilter(ParseFile(fs[EnsureJsonExtension(key[3])]),
                   LAMBDA r : Get(r, key[4]) = key[2])
LibCached(cache, fs, key) ==
  IF GetCachedRelation(cache, key) THEN cache
  ELSE [cache EXCEPT ![key] = Entry(LibRelated(cache, fs, key))]

\* cascadeDelete's await getRelated(...)
CascadeRelated(t) ==
  /\ tasks[t].kind = "cascadeDelete" /\ tasks[t].pc = "related"
  /\ LET me  == tasks[t]
         rel == Head(me.arg)
         key == RelationKey(me.file, me.id, rel.toCollection, rel.toField)
     IN /\ tasks' = [tasks EXCEPT ![t].pc = "each",
                       ![t].data = LibRelated(relationsCache, files, key)]
        /\ relationsCache' = LibCached(relationsCache, files, key)
  /\ UNCHANGED <<files, indexFiles, dbLocks, tokenCounter, relationDefinitions, files0>>
  /\ UNCHANGED <<libCall, notLibVars>>

\* for (const record of related): del.id for cascade, edit.id for setNull,
\* awaited one after the other.
CascadeEach(t) ==
  /\ tasks[t].kind = "cascadeDelete" /\ tasks[t].pc = "each"
  /\ LET me == tasks[t] rel == Head(me.arg) slot == NthFree(tasks, 1)
         file == EnsureJsonExtension(rel.toCollection)
     IN tasks' =
          IF me.data = <<>>
            THEN [tasks EXCEPT ![t].pc = "next", ![t].arg = Tail(@)]
          ELSE IF rel.onDelete = "cascade"
            THEN [tasks EXCEPT
                    ![t] = [me EXCEPT !.pc = "item", !.pending = 1, !.data = Tail(@)],
                    ![slot] = [FreeTask EXCEPT !.kind = "deleteOne", !.pc = "lock",
                                 !.file = file, !.id = Str(Get(Head(me.data), "id")),
                                 !.parent = t]]
          ELSE IF rel.onDelete = "setNull"
            THEN [tasks EXCEPT
                    ![t] = [me EXCEPT !.pc = "item", !.pending = 1, !.data = Tail(@)],
                    ![slot] = [FreeTask EXCEPT !.kind = "editOne", !.pc = "lock",
                                 !.file = file, !.id = Str(Get(Head(me.data), "id")),
                                 !.parent = t, !.arg = [x \in {rel.toField} |-> Null]]]
          ELSE [tasks EXCEPT ![t].data = Tail(@)]
  /\ UNCHANGED <<files, indexFiles, dbLocks, tokenCounter, relationDefinitions, files0>>
  /\ UNCHANGED notDbVars

\* atomicWrite of a delete or edit that a relation check called throws
\* (open, write, sync or rename failed): the data file keeps its content,
\* the call throws IO_ERROR and releases its lock.
FailDependentWrite(t) ==
  /\ tasks[t].pc = "write"
  /\ tasks[t].parent # NoParent
  /\ tasks[t].parent # Detached => tasks[tasks[t].parent].pc # "primary"
  /\ LET st == Finished(tasks, dbLocks, t, IOError)
     IN /\ tasks' = st.tasks
        /\ dbLocks' = st.locks
  /\ UNCHANGED <<files, indexFiles, tokenCounter, relationDefinitions, files0>>
  /\ UNCHANGED notDbVars

\* The same delete when the writes to the related collection may fail.
NextRelFault ==
  \/ \E id \in {"u1", "u3"} : tasks[1].pc = "free" /\ CallDeleteOne(1, "users", id)
  \/ \E t \in TaskIds : Begin(t) \/ View(t) \/ Write(t) \/ Finish(t) \/ FailDependentWrite(t)

SpecRelFault == InitRel /\ [][NextRelFault]_vars

\* Deleting a user under RESTRICT while the application adds or edits a post:
\* del.id and add.id / edit.id are called one after the other without
\* awaiting the first, so the second call is made while del.id is waiting at
\* acquireLock.
Writer == MaxTasks
InitRestrict ==
  /\ InitLockVars /\ InitWriteVars /\ InitExtVars /\ InitLiteVars
  /\ \E n \in 0..MaxPosts : \E refs \in [1..n -> PostRefs] :
     \E rels \in {{"userPosts"}, {"userPosts", "userEdits"}} :
       InitDb([f \in Files |-> CASE f = "users.json" -> File(<<Alice, Bob>>)
                                  [] f = "posts.json" -> File(PostsOf(refs))
                                  [] OTHER -> NoFile],
              [r \in rels |-> IF r = "userPosts" THEN OneToMany("authorId", "RESTRICT")
                                                 ELSE OneToMany("editorId", "RESTRICT")])

NextRestrict ==
  \/ tasks[1].pc = "free" /\ CallDeleteOne(1, "users", "u1")
  \/ /\ tasks[1].pc = "lock" /\ tasks[Writer].pc = "free"
     /\ \/ \E ref \in PostRefs :
             CallAddOne(Writer, "posts", [title |-> "T", authorId |-> ref.authorId,
                                          editorId |-> ref.editorId])
        \/ \E id \in {PostIds[i] : i \in 1..MaxPosts}, field \in {"authorId", "editorId"},
              v \in {"u1", "u2", Null} :
             CallEditOne(Writer, "posts", id, [x \in {field} |-> v])
  \/ \E t \in TaskIds : Begin(t) \/ View(t) \/ Write(t) \/ Finish(t)

SpecRestrict == InitRestrict /\ [][NextRestrict]_vars

\* cascadeDelete of Alice with one or two relation options, over the same
\* collections; the library keeps no relation definitions in the store.
MaxRelationOptions == 2
InitCascade ==
  /\ InitLockVars /\ InitWriteVars /\ InitExtVars /\ InitLiteVars
  /\ \E n \in 0..MaxPosts : \E refs \in [1..n -> PostRefs] :
       InitDb([f \in Files |-> CASE f = "users.json" -> File(<<Alice, Bob>>)
                                  [] f = "posts.json" -> File(PostsOf(refs))
                                  [] OTHER -> NoFile],
              NoRelations)

NextCascade ==
  \/ \E n \in 1..MaxRelationOptions : \E relations \in [1..n -> RelationOptions] :
       CallCascadeDelete(1, "users", "u1", relations)
  \/ \E t \in TaskIds : CascadeNext(t) \/ CascadeRelated(t) \/ CascadeEach(t)
  \/ \E t \in TaskIds : Begin(t) \/ Write(t) \/ Finish(t) \/ FailDependentWrite(t)

SpecCascade == InitCascade /\ [][NextCascade]_vars

\* getRelated({ fromCollection: "users", fromId: "u1", toCollection: "posts",
\* toField }) called by the application, which awaits it.
MaxLibCalls == 2
LibGetRelated(toField) ==
  LET key == RelationKey("users.json", "u1", "posts", toField)
  IN /\ Quiescent
     /\ libCall.n < MaxLibCalls
     /\ libCall' = [n |-> libCall.n + 1, toField |-> toField,
                    data |-> LibRelated(relationsCache, files, key)]
     /\ relationsCache' = LibCached(relationsCache, files, key)
     /\ UNCHANGED dbVars
     /\ UNCHANGED notLibVars

\* invalidateRelationCache(keyPattern): every key that includes the pattern
InvalidateRelationCache(cache, key) == [cache EXCEPT ![key] = NoEntry]

\* removeRelation({ fromCollection: "users", fromId: "u1", toCollection:
\* "posts", toId, toField }): edit.id nulls the field of the post if it
\* refers to Alice, and the key of the relation is invalidated.
LibRemoveRelation(toId, toField) ==
  LET data  == ParseFile(files["posts.json"])
      index == FindIndex(data, toId)
  IN /\ Quiescent
     /\ index # 0
     /\ files' = IF Get(data[index], toField) = "u1"
                   THEN [files EXCEPT !["posts.json"] =
                           File([data EXCEPT ![index] = With(data[index], toField, Null)])]
                   ELSE files
     /\ relationsCache' = InvalidateRelationCache(relationsCache,
                             RelationKey("users.json", "u1", "posts", toField))
     /\ UNCHANGED <<indexFiles, dbLocks, tasks, tokenCounter, relationDefinitions, files0>>
     /\ UNCHANGED <<libCall, notLibVars>>

\* Date.now() passes the timestamp of an entry by more than CACHE_TTL.
RelationsCacheExpire(key) ==
  /\ GetCachedRelation(relationsCache, key)
  /\ relationsCache' = [relationsCache EXCEPT ![key].expired = TRUE]
  /\ UNCHANGED dbVars
  /\ UNCHANGED <<libCall, notLibVars>>

\* The application reads the posts of Alice through the library, adds, edits
\* and deletes posts through the store, removes relations and deletes Alice
\* with cascadeDelete, one call after the other.
InitLibrary ==
  /\ InitLockVars /\ InitWriteVars /\ InitExtVars /\ InitLiteVars
  /\ \E n \in 0..MaxPosts : \E refs \in [1..n -> [authorId : {"u1", "u2"}, editorId : {Null}]] :
       InitDb([f \in Files |-> CASE f = "users.json" -> File(<<Alice, Bob>>)
                                  [] f = "posts.json" -> File(PostsOf(refs))
                                  [] OTHER -> NoFile],
              NoRelations)

NextLibrary ==
  \/ LibGetRelated("authorId")
  \/ \E id \in {PostIds[i] : i \in 1..MaxPosts} : LibRemoveRelation(id, "authorId")
  \/ \E k \in LibKeys : RelationsCacheExpire(k)
  \/ /\ Quiescent /\ tasks[1].pc = "free"
     /\ \/ /\ Len(ParseFile(files["posts.json"])) < MaxPosts
           /\ CallAddOne(Writer, "posts", [title |-> "T", authorId |-> "u1", editorId |-> Null])
        \/ \E id \in {PostIds[i] : i \in 1..MaxPosts}, v \in {"u1", "u2"} :
             CallEditOne(Writer, "posts", id, [authorId |-> v])
        \/ \E id \in {PostIds[i] : i \in 1..MaxPosts} : CallDeleteOne(Writer, "posts", id)
        \/ \E onDelete \in {"cascade", "setNull"} :
             CallCascadeDelete(1, "users", "u1",
               <<[type |-> "oneToMany", toCollection |-> "posts", toField |-> "authorId",
                  onDelete |-> onDelete]>>)
  \/ \E t \in TaskIds : CascadeNext(t) \/ CascadeRelated(t) \/ CascadeEach(t)
  \/ \E t \in TaskIds : Begin(t) \/ Write(t) \/ Finish(t)

SpecLibrary == InitLibrary /\ [][NextLibrary]_vars

(***************************************************************************)
(* utils.verifyRelations                                                   *)
(***************************************************************************)
\* defineRelation(name, { type: "N:M", localFile: "users", localField: "id",
\*   foreignFile, foreignField: "id", junctionFile: "user_tags",
\*   junctionLocalField: "userId", junctionForeignField: "tagId", onDelete })
ManyToMany(foreignFile, onDelete) ==
  [type |-> "N:M", localFile |-> EnsureJsonExtension("users"), localField |-> "id",
   foreignFile |-> foreignFile, foreignField |-> "id",
   junctionFile |-> "user_tags.json", junctionLocalField |-> "userId",
   junctionForeignField |-> "tagId", onDelete |-> onDelete]

Tag1 == [id |-> "g1", label |-> "news"]

\* The junction rows: up to MaxPosts rows, each with a user and a tag.
JunctionRefs == [userId : {"u1", "u2"}, tagId : {"g1", "u1"}]
JunctionIds  == <<"j1", "j2", "j3", "j4">>
RowsOf(refs) ==
  [i \in 1..Len(refs) |-> [id |-> JunctionIds[i], userId |-> refs[i].userId,
                            tagId |-> refs[i].tagId]]

\* The checks of one relation: the foreign records against the local file,
\* or for N:M both columns of the junction file against their files.
ChecksOf(relation) ==
  IF relation.type \in {"1:1", "1:N"}
    THEN <<[sourceFile |-> relation.foreignFile, sourceField |-> relation.foreignField,
            targetFile |-> relation.localFile, targetField |-> relation.localField]>>
    ELSE <<[sourceFile |-> relation.junctionFile, sourceField |-> relation.junctionLocalField,
            targetFile |-> relation.localFile, targetField |-> relation.localField],
           [sourceFile |-> relation.junctionFile, sourceField |-> relation.junctionForeignField,
            targetFile |-> relation.foreignFile, targetField |-> relation.foreignField]>>

\* foreignKeysToCheck, in the order of the Set, and sourceRecordsWithFK.get(fk)
ForeignKeysToCheck(sourceData, sourceField) ==
  LET K[i \in 0..Len(sourceData)] ==
        IF i = 0 THEN <<>>
        ELSE LET fkValue == Get(sourceData[i], sourceField)
             IN IF fkValue \in {Undef, Null} \/ SeqContains(K[i - 1], Str(fkValue))
                  THEN K[i - 1] ELSE Append(K[i - 1], Str(fkValue))
  IN K[Len(sourceData)]
SourceRecordWithFK(sourceData, sourceField, fk) ==
  LET i == CHOOSE i \in 1..Len(sourceData) :
             /\ Get(sourceData[i], sourceField) \notin {Undef, Null}
             /\ Str(Get(sourceData[i], sourceField)) = fk
             /\ \A j \in 1..(i - 1) : Get(sourceData[j], sourceField) \in {Undef, Null}
                                        \/ Str(Get(sourceData[j], sourceField)) # fk
  IN Get(sourceData[i], "id")

\* findExistingIds(filePath, idsToCheck, idFieldName)
FindExistingIds(content, idsToCheck, idFieldName) ==
  IF ~IsArray(content) THEN {}
  ELSE {id \in idsToCheck :
          \E i \in 1..Len(ParseFile(content)) : Str(Get(ParseFile(content)[i], idFieldName)) = id}

\* foundTargetIds of one check: a target file that an earlier check has looked
\* up is not read again, the ids found then are intersected with the keys.
FoundTargetIds(checkedLinks, content, keys, check) ==
  IF check.targetFile \in DOMAIN checkedLinks
    THEN keys \cap checkedLinks[check.targetFile]
    ELSE FindExistingIds(content, keys, check.targetField)

\* One check of the sweep, on what the sweep has so far.
VerifyCheck(sweep, fs, relationName, relation, check) ==
  LET sourceData  == ParseFile(fs[check.sourceFile])
      foreignKeys == ForeignKeysToCheck(sourceData, check.sourceField)
      keys        == {foreignKeys[i] : i \in 1..Len(foreignKeys)}
      found       == FoundTargetIds(sweep.checkedLinks, fs[check.targetFile], keys, check)
      broken      == SelectSeq(foreignKeys, LAMBDA fk : fk \notin found)
  IN IF ~IsArray(fs[check.sourceFile]) \/ foreignKeys = <<>> THEN sweep
     ELSE [checkedLinks |->
             IF check.targetFile \in DOMAIN sweep.checkedLinks THEN sweep.checkedLinks
             ELSE [f \in DOMAIN sweep.checkedLinks \cup {check.targetFile} |->
                     IF f = check.targetFile THEN found ELSE sweep.checkedLinks[f]],
           inconsistencies |->
             sweep.inconsistencies \o
               [i \in 1..Len(broken) |->
                  [relationName |-> relationName, type |-> relation.type,
                   sourceFile |-> check.sourceFile,
                   sourceRecordId |-> SourceRecordWithFK(sourceData, check.sourceField, broken[i]),
                   sourceField |-> check.sourceField, brokenValue |-> broken[i],
                   targetFile |-> check.targetFile, targetField |-> check.targetField]]]

\* The checks of all relations, in the order of the definitions.
AllChecks(definitions) ==
  LET names == SelectSeq(RelationOrder, LAMBDA n : n \in DOMAIN definitions)
      A[i \in 0..Len(names)] ==
        IF i = 0 THEN <<>>
        ELSE A[i - 1] \o [k \in 1..Len(ChecksOf(definitions[names[i]])) |->
                            [relationName |-> names[i],
                             check |-> ChecksOf(definitions[names[i]])[k]]]
  IN A[Len(names)]

\* verifyRelations(): the inconsistencies it returns.
VerifyRelations(fs, definitions) ==
  LET all == AllChecks(definitions)
      V[i \in 0..Len(all)] ==
        IF i = 0 THEN [checkedLinks |-> <<>>, inconsistencies |-> <<>>]
        ELSE VerifyCheck(V[i - 1], fs, all[i].relationName,
                         definitions[all[i].relationName], all[i].check)
  IN V[Len(all)].inconsistencies

\* xdB.utils.verifyRelations() on the store at rest
VerifyRelationsCall ==
  /\ Quiescent
  /\ ~verification.done
  /\ verification' = [done |-> TRUE,
                      inconsistencies |-> VerifyRelations(files, relationDefinitions)]
  /\ UNCHANGED notAuditVars

\* The stores the sweep runs on: users with posts under one or two 1:N
\* relations, or users with junction rows under an N:M relation to the tags or
\* to the users themselves; some of the referenced records are not there.
InitVerify ==
  /\ InitLockVars /\ InitWriteVars /\ InitLiteVars /\ InitExtVars
  /\ \E users \in {<<Alice, Bob>>, <<Alice>>, <<Bob>>, <<>>} :
       \/ \E n \in 0..MaxPosts : \E refs \in [1..n -> PostRefs] :
          \E rels \in {{"userPosts"}, {"userPosts", "userEdits"}} :
            InitDb([f \in Files |-> CASE f = "users.json" -> File(users)
                                      [] f = "posts.json" -> File(PostsOf(refs))
                                      [] OTHER -> NoFile],
                   [r \in rels |-> IF r = "userPosts" THEN OneToMany("authorId", "RESTRICT")
                                                      ELSE OneToMany("editorId", "RESTRICT")])
       \/ \E n \in 0..MaxPosts : \E refs \in [1..n -> JunctionRefs] :
          \E foreignFile \in {"tags.json", "users.json"}, tags \in {<<Tag1>>, <<>>} :
            InitDb([f \in Files |-> CASE f = "users.json" -> File(users)
                                      [] f = "tags.json" -> File(tags)
                                      [] f = "user_tags.json" -> File(RowsOf(refs))
                                      [] OTHER -> NoFile],
                   [r \in {"userTags"} |-> ManyToMany(foreignFile, "RESTRICT")])

NextVerify == VerifyRelationsCall

SpecVerify == InitVerify /\ [][NextVerify]_vars

\* del.id of a user under an N:M relation to the tags: the users, one tag and
\* up to MaxPosts junction rows, each with a user and a tag; the relation
\* deletes the junction rows by CASCADE or by SET_NULL.
InitJunction ==
  /\ InitLockVars /\ InitWriteVars /\ InitExtVars /\ InitLiteVars
  /\ \E n \in 0..MaxPosts : \E refs \in [1..n -> JunctionRefs] :
     \E onDelete \in {"CASCADE", "SET_NULL"} :
       InitDb([f \in Files |-> CASE f = "users.json" -> File(<<Alice, Bob>>)
                                  [] f = "tags.json" -> File(<<Tag1>>)
                                  [] f = "user_tags.json" -> File(RowsOf(refs))
                                  [] OTHER -> NoFile],
              [r \in {"userTags"} |-> ManyToMany("tags.json", onDelete)])

NextJunction ==
  \/ \E id \in {"u1", "u3"} : tasks[1].pc = "free" /\ CallDeleteOne(1, "users", id)
  \/ \E t \in TaskIds : Begin(t) \/ View(t) \/ Write(t) \/ Finish(t)

SpecJunction == InitJunction /\ [][NextJunction]_vars

(***************************************************************************)
(* xdFiles: batch operations                                               *)
(***************************************************************************)
MaxBatchOps == 3

\* The operations of the builder and of the rollback list.
CopyOp(source, target) == [type |-> "copy", source |-> source, target |-> target]
MoveOp(source, target) == [type |-> "move", source |-> source, target |-> target]
DeleteOp(path)         == [type |-> "delete", path |-> path]
WriteOp(path, data)    == [type |-> "write", path |-> path, data |-> data]

\* if (existingData): the text a TextAdapter read is truthy unless it is empty.
Truthy(text) == text # ""

\* One operation on the files: whether it succeeded, the files after it, and
\* what commit pushes on its rollback list.
\*   copy:   fs.copyFile throws if the source is missing; the target is overwritten
\*   move:   FILE_NOT_FOUND if the source is missing; fs.rename replaces the target
\*   delete: FILE_NOT_FOUND if the file is missing; the text read before is the backup
\*   write:  the text read before, or null if the read threw, decides the rollback
BatchApply(fs, op) ==
  CASE op.type = "copy" ->
         IF fs[op.source] = Absent
           THEN [ok |-> FALSE, fs |-> fs, undo |-> <<>>]
           ELSE [ok |-> TRUE, fs |-> [fs EXCEPT ![op.target] = fs[op.source]],
                 undo |-> <<DeleteOp(op.target)>>]
    [] op.type = "move" ->
         IF fs[op.source] = Absent
           THEN [ok |-> FALSE, fs |-> fs, undo |-> <<>>]
           ELSE [ok |-> TRUE,
                 fs |-> [fs EXCEPT ![op.target] = fs[op.source], ![op.source] = Absent],
                 undo |-> <<MoveOp(op.target, op.source)>>]
    [] op.type = "delete" ->
         IF fs[op.path] = Absent
           THEN [ok |-> FALSE, fs |-> fs, undo |-> <<>>]
           ELSE [ok |-> TRUE, fs |-> [fs EXCEPT ![op.path] = Absent],
                 undo |-> <<WriteOp(op.path, fs[op.path])>>]
    [] OTHER ->
         [ok |-> TRUE, fs |-> [fs EXCEPT ![op.path] = op.data],
          undo |-> IF fs[op.path] # Absent /\ Truthy(fs[op.path])
                     THEN <<WriteOp(op.path, fs[op.path])>>
                     ELSE <<DeleteOp(op.path)>>]

\* for (const rbOp of rollback.reverse()): each one is tried, an error is logged.
RECURSIVE BatchRollback(_, _)
BatchRollback(fs, rollback) ==
  IF rollback = <<>> THEN fs
  ELSE BatchRollback(BatchApply(fs, rollback[Len(rollback)]).fs,
                     SubSeq(rollback, 1, Len(rollback) - 1))

\* batch.copy / move / delete / write: the builder appends an operation.
BatchAdd(op) ==
  /\ batch.pc = "build"
  /\ Len(batch.operations) < MaxBatchOps
  /\ batch' = [batch EXCEPT !.operations = Append(@, op)]
  /\ UNCHANGED batchFiles
  /\ UNCHANGED notBatchVars

\* commit() is called.
BatchCommit ==
  /\ batch.pc = "build"
  /\ batch' = [batch EXCEPT !.pc = IF batch.operations = <<>> THEN "done" ELSE "commit",
                 !.next = 1, !.before = batchFiles,
                 !.result = IF batch.operations = <<>> THEN "ok" ELSE "none"]
  /\ UNCHANGED batchFiles
  /\ UNCHANGED notBatchVars

\* One turn of commit's loop: the operation succeeds and its inverse goes on
\* the rollback list, or it throws, the rollback list is run backwards and
\* commit throws OPERATION_FAILED.
BatchNext ==
  /\ batch.pc = "commit"
  /\ LET r == BatchApply(batchFiles, batch.operations[batch.next])
     IN IF r.ok
          THEN /\ batchFiles' = r.fs
               /\ batch' = [batch EXCEPT
                              !.rollback = @ \o r.undo,
                              !.next = @ + 1,
                              !.pc = IF batch.next = Len(batch.operations)
                                       THEN "done" ELSE "commit",
                              !.result = IF batch.next = Len(batch.operations)
                                           THEN "ok" ELSE "none"]
          ELSE /\ batchFiles' = BatchRollback(batchFiles, batch.rollback)
               /\ batch' = [batch EXCEPT !.pc = "done", !.result = OperationFailed]
  /\ UNCHANGED notBatchVars

BatchTexts == {"", "x"}
BatchOps ==
  {CopyOp(st[1], st[2]) : st \in {x \in BatchPaths \X BatchPaths : x[1] # x[2]}}
    \cup {MoveOp(st[1], st[2]) : st \in {x \in BatchPaths \X BatchPaths : x[1] # x[2]}}
    \cup {DeleteOp(p) : p \in BatchPaths}
    \cup {WriteOp(p, "y") : p \in BatchPaths}

InitBatch ==
  /\ InitLockVars /\ InitWriteVars /\ InitDbVars /\ InitLiteVars
  /\ InitViewVars /\ InitAuditVars /\ InitRelatedVars /\ InitLibVars /\ InitHookVars
  /\ InitDelVars /\ InitLinkVars
  /\ batchFiles \in [BatchPaths -> BatchTexts \cup {Absent}]
  /\ batch = BatchIdle

NextBatch ==
  \/ \E op \in BatchOps : BatchAdd(op)
  \/ BatchCommit
  \/ BatchNext

SpecBatch == InitBatch /\ [][NextBatch]_vars

(***************************************************************************)
(* Events: listeners of the full engine and handlers of xdFiles            *)
(***************************************************************************)
\* What a listener does when it is invoked:
\*   "stamp"      sets createdAt on data.newRecord and returns
\*   "throws"     throws an Error
\*   "throwsNull" throws null
ListenerKinds == {"stamp", "throws", "throwsNull"}

\* _emit(eventName, data): the emit is left to a timer.
Emit(pending, eventName) == Append(pending, eventName)

\* emitEvent(event, ...args): every handler is called at once; what a handler
\* throws is caught and logged with error.message, which throws a TypeError
\* out of emitEvent when the handler threw null.
EmitEventThrows(event) == listener.event = event /\ listener.kind = "throwsNull"

\* xdB.add.id(filePath, newRecord) of the full engine up to its first read:
\* beforeAddId is emitted, the record validated and the lock taken.
AddIdCall ==
  /\ hookEngine = "xdb" /\ hookCall.pc = "idle"
  /\ timers' = Emit(timers, "beforeAddId")
  /\ hookCall' = [hookCall EXCEPT !.pc = "read", !.arg = callerRecord, !.before = hookFile]
  /\ UNCHANGED <<hookEngine, listener, hookFile, callerRecord>>
  /\ UNCHANGED notHookVars

\* safeParseJSON returns: the record is copied from the caller's object as it
\* is now, and an id that is taken ends the call with RECORD_EXISTS.
AddIdRead ==
  /\ hookEngine = "xdb" /\ hookCall.pc = "read"
  /\ LET data        == ParseFile(hookFile)
         recordToAdd == With(callerRecord, "id", Str(callerRecord.id))
     IN IF HasId(data, recordToAdd.id)
          THEN /\ hookCall' = [hookCall EXCEPT !.pc = "done",
                                 !.result = [code |-> RecordExists]]
               /\ timers' = Emit(timers, "errorAddId")
          ELSE /\ hookCall' = [hookCall EXCEPT !.pc = "write",
                                 !.data = Append(data, recordToAdd),
                                 !.result = [code |-> "none", record |-> recordToAdd]]
               /\ UNCHANGED timers
  /\ UNCHANGED <<hookEngine, listener, hookFile, callerRecord>>
  /\ UNCHANGED notHookVars

\* atomicWrite returns: afterAddId is emitted and the record returned.
AddIdWrite ==
  /\ hookEngine = "xdb" /\ hookCall.pc = "write"
  /\ hookFile' = File(hookCall.data)
  /\ timers' = Emit(timers, "afterAddId")
  /\ hookCall' = [hookCall EXCEPT !.pc = "done", !.result.code = "ok"]
  /\ UNCHANGED <<hookEngine, listener, callerRecord>>
  /\ UNCHANGED notHookVars

\* The callback of _emit's timer: _emitter.emit(eventName, data) in a try whose
\* catch logs the error; a listener of the event receives the caller's object.
EmitTimer ==
  /\ timers # <<>>
  /\ timers' = Tail(timers)
  /\ callerRecord' = IF listener.event = Head(timers) /\ listener.kind = "stamp"
                    THEN With(callerRecord, "createdAt", "now") ELSE callerRecord
  /\ UNCHANGED <<hookEngine, listener, hookFile, hookCall>>
  /\ UNCHANGED notHookVars

\* xdb.edit.all(filePath, newData) of xdFiles up to atomicWrite.
EditAllCall(newData) ==
  /\ hookEngine = "xdFiles" /\ hookCall.pc = "idle"
  /\ hookCall' = [hookCall EXCEPT !.pc = "write", !.arg = newData, !.before = hookFile,
                    !.data = newData]
  /\ UNCHANGED <<hookEngine, listener, hookFile, callerRecord, timers>>
  /\ UNCHANGED notHookVars

\* atomicWrite's rename and its emitEvent('write', filePath), inside the try
\* whose catch throws IO_ERROR.
EditAllWrite ==
  /\ hookEngine = "xdFiles" /\ hookCall.pc = "write"
  /\ hookFile' = File(hookCall.data)
  /\ hookCall' = [hookCall EXCEPT !.pc = "done",
                    !.result = IF EmitEventThrows("write")
                                 THEN [code |-> IOError] ELSE [code |-> "ok"]]
  /\ UNCHANGED <<hookEngine, listener, callerRecord, timers>>
  /\ UNCHANGED notHookVars

\* The collection holds no record or one; the caller adds a record under a
\* new id or under the stored one, or replaces the collection.
HookRecord == [id |-> "k1", name |-> "Ann"]
HookNewRecords == {[id |-> "k1", name |-> "Ben"], [id |-> "k2", name |-> "Ben"]}
HookEvents(engine) ==
  IF engine = "xdb" THEN {"beforeAddId", "afterAddId", "errorAddId"} ELSE {"write"}

InitHooks ==
  /\ InitLockVars /\ InitWriteVars /\ InitDbVars /\ InitLiteVars
  /\ InitViewVars /\ InitAuditVars /\ InitRelatedVars /\ InitLibVars /\ InitBatchVars
  /\ InitDelVars /\ InitLinkVars
  /\ hookEngine \in {"xdb", "xdFiles"}
  /\ listener \in {NoListener} \cup
       {[event |-> e, kind |-> k] : e \in HookEvents(hookEngine), k \in ListenerKinds}
  /\ hookFile \in {NoFile, File(<<>>), File(<<HookRecord>>)}
  /\ callerRecord \in HookNewRecords
  /\ timers = <<>>
  /\ hookCall = HookIdle

NextHooks ==
  \/ AddIdCall
  \/ AddIdRead
  \/ AddIdWrite
  \/ EmitTimer
  \/ \E newData \in {<<>>, <<HookRecord>>} : EditAllCall(newData)
  \/ EditAllWrite

SpecHooks == InitHooks /\ [][NextHooks]_vars

(***************************************************************************)
(* relations.getRelated and the relation cache                             *)
(***************************************************************************)
\* defineRelation(name, { type: "1:1", localFile: "users", localField: "id",
\*                        foreignFile: "posts", foreignField: field, onDelete })
OneToOne(field, onDelete) == [OneToMany(field, onDelete) EXCEPT !.type = "1:1"]

\* The most records a collection of this specification holds.
MaxRelatedRecs == 2

\* resultData: result.data[0] or null of a 1:1 relation (a list of at most one
\* record, marked single), result.data of the others.
One(data)  == [single |-> TRUE, data |-> IF Len(data) > 0 THEN <<data[1]>> ELSE <<>>]
Many(data) == [single |-> FALSE, data |-> data]

\* view.more(file, { filter: record => record[field] == localId }).data
RelatedFilter(content, field, localId) ==
  SeqFilter(ParseFile(content), LAMBDA r : LooseEq(Get(r, field), localId))

\* junctionResult.data.map(record => record[field]).filter(id => id !== undefined
\* && id !== null), as the Set of their strings
ForeignIdSet(junctionData, field) ==
  {Str(Get(junctionData[i], field)) :
     i \in {j \in 1..Len(junctionData) : Get(junctionData[j], field) \notin {Null, Undef}}}

\* view.more(file, { filter: record => foreignIdSet.has(String(record[field])) }).data
ForeignFilter(content, field, foreignIdSet) ==
  SeqFilter(ParseFile(content), LAMBDA r : Str(Get(r, field)) \in foreignIdSet)

ClearRelationCache == [k \in CacheKeys |-> NoEntry]

\* The end of getRelated: the result goes into the cache and to the caller.
ReturnRelated(resultData) ==
  /\ relationCache' =
       IF enableRelationCache
         THEN [relationCache EXCEPT ![<<relatedCall.relationName, relatedCall.localId>>] =
                 Entry(resultData)]
         ELSE relationCache
  /\ relatedCall' = [relatedCall EXCEPT !.pc = "done",
                   !.result = [code |-> "ok", single |-> resultData.single,
                               data |-> resultData.data]]

\* getRelated(relationName, localId) up to its first read: a cached entry within
\* the TTL is the result, an older one is dropped.
GetRelatedCall(relationName, localId) ==
  LET cacheKey    == <<relationName, localId>>
      cachedEntry == relationCache[cacheKey]
      call        == [RelatedIdle EXCEPT !.relationName = relationName,
                        !.localId = localId]
  IN /\ relatedCall.pc \in {"idle", "done"}
     /\ IF enableRelationCache /\ cachedEntry.cached /\ ~cachedEntry.expired
          THEN /\ relatedCall' = [call EXCEPT !.pc = "done",
                                !.result = [code |-> "ok", single |-> cachedEntry.data.single,
                                            data |-> cachedEntry.data.data]]
               /\ UNCHANGED relationCache
          ELSE /\ relationCache' =
                    IF enableRelationCache /\ cachedEntry.cached
                      THEN [relationCache EXCEPT ![cacheKey] = NoEntry]
                      ELSE relationCache
               /\ relatedCall' =
                    IF relationName \notin DOMAIN relationDefinitions
                      THEN [call EXCEPT !.pc = "done",
                              !.result = [code |-> "XDB_OPERATION_FAILED"]]
                      ELSE [call EXCEPT !.pc =
                              IF relationDefinitions[relationName].type = "N:M"
                                THEN "junction" ELSE "foreign"]
     /\ UNCHANGED <<enableRelationCache, dbVars>>
     /\ UNCHANGED notRelatedVars

\* The N:M case reads the junction file.
GetRelatedJunction ==
  LET relation     == relationDefinitions[relatedCall.relationName]
      junctionData == RelatedFilter(files[relation.junctionFile],
                                    relation.junctionLocalField, relatedCall.localId)
      foreignIds   == ForeignIdSet(junctionData, relation.junctionForeignField)
  IN /\ relatedCall.pc = "junction"
     /\ IF foreignIds = {}
          THEN ReturnRelated(Many(<<>>))
          ELSE /\ relatedCall' = [relatedCall EXCEPT !.pc = "foreign", !.foreignIds = foreignIds]
               /\ UNCHANGED relationCache
     /\ UNCHANGED <<enableRelationCache, dbVars>>
     /\ UNCHANGED notRelatedVars

\* Every case reads the foreign file and returns.
GetRelatedForeign ==
  LET relation == relationDefinitions[relatedCall.relationName]
      content  == files[relation.foreignFile]
      resultData ==
        CASE relation.type = "1:1" ->
               One(RelatedFilter(content, relation.foreignField, relatedCall.localId))
          [] relation.type = "1:N" ->
               Many(RelatedFilter(content, relation.foreignField, relatedCall.localId))
          [] OTHER ->
               Many(ForeignFilter(content, relation.foreignField, relatedCall.foreignIds))
  IN /\ relatedCall.pc = "foreign"
     /\ ReturnRelated(resultData)
     /\ UNCHANGED <<enableRelationCache, dbVars>>
     /\ UNCHANGED notRelatedVars

\* Date.now() passes the timestamp of an entry by more than the TTL.
RelationCacheExpire(cacheKey) ==
  /\ relationCache[cacheKey].cached /\ ~relationCache[cacheKey].expired
  /\ relationCache' = [relationCache EXCEPT ![cacheKey].expired = TRUE]
  /\ UNCHANGED <<enableRelationCache, relatedCall, dbVars>>
  /\ UNCHANGED notRelatedVars

\* A write while getRelated runs overlaps it; one after it has returned
\* ends the record of the call.
Overlapped ==
  IF relatedCall.pc \in {"junction", "foreign"}
    THEN [relatedCall EXCEPT !.overlapped = TRUE] ELSE RelatedIdle

\* A write of a collection file by another call, seen from getRelated.
WriteCollection(file, content, clear) ==
  /\ files' = [files EXCEPT ![file] = content]
  /\ relationCache' = IF clear THEN ClearRelationCache ELSE relationCache
  /\ relatedCall' = Overlapped
  /\ UNCHANGED <<enableRelationCache, indexFiles, dbLocks, tasks, tokenCounter,
                 relationDefinitions, files0>>
  /\ UNCHANGED notRelatedVars

\* add.id, edit.id and del.id of a record of a foreign or junction collection,
\* which no relation has as its local file: the write, then clearRelationCache.
AddRecordById(file, newRecord) ==
  /\ Quiescent
  /\ Len(ParseFile(files[file])) < MaxRelatedRecs
  /\ ~HasId(ParseFile(files[file]), newRecord.id)
  /\ WriteCollection(file, File(Append(ParseFile(files[file]), newRecord)), TRUE)

EditRecordById(file, id, newRecord) ==
  LET data  == ParseFile(files[file])
      index == FindIndex(data, id)
  IN /\ Quiescent
     /\ index # 0
     /\ WriteCollection(file,
          File([data EXCEPT ![index] = With(Merge(data[index], newRecord), "id", id)]),
          TRUE)

DeleteRecordById(file, id) ==
  /\ Quiescent
  /\ HasId(ParseFile(files[file]), id)
  /\ WriteCollection(file, File(WithoutId(ParseFile(files[file]), id)), TRUE)

\* move.file(source, target): a rename, and no clearRelationCache.
MoveFile(source, target) ==
  /\ Quiescent
  /\ files[source].exists
  /\ files' = [files EXCEPT ![target] = files[source], ![source] = NoFile]
  /\ relatedCall' = Overlapped
  /\ UNCHANGED <<enableRelationCache, relationCache, indexFiles, dbLocks, tasks,
                 tokenCounter, relationDefinitions, files0>>
  /\ UNCHANGED notRelatedVars

\* Alice with a post she wrote and edited and with one tag; the three
\* relations of the users; the relation cache on or off.
Post1 == [id |-> "p1", title |-> "T", authorId |-> "u1", editorId |-> "u1"]
Row1  == [id |-> "j1", userId |-> "u1", tagId |-> "g1"]

RelatedRecords(file) ==
  CASE file = "posts.json" ->
         {[id |-> "p2", title |-> "T", authorId |-> "u1", editorId |-> Null]}
    [] file = "user_tags.json" -> {[id |-> "j2", userId |-> "u2", tagId |-> "g1"]}
    [] OTHER -> {[id |-> "g2", label |-> "misc"]}

RelatedPatches(file) ==
  CASE file = "posts.json" -> {[authorId |-> "u2", editorId |-> Null]}
    [] file = "user_tags.json" -> {[userId |-> "u2"]}
    [] OTHER -> {[label |-> "old"]}

RelatedFiles == {"posts.json", "user_tags.json", "tags.json"}

InitRelated ==
  /\ InitLockVars /\ InitWriteVars /\ InitLiteVars /\ InitViewVars /\ InitAuditVars
  /\ InitLibVars /\ InitBatchVars /\ InitHookVars /\ InitDelVars /\ InitLinkVars
  /\ enableRelationCache \in BOOLEAN
  /\ relationCache = [k \in CacheKeys |-> NoEntry]
  /\ relatedCall = RelatedIdle
  /\ InitDb([f \in Files |-> CASE f = "users.json" -> File(<<Alice, Bob>>)
                               [] f = "posts.json" -> File(<<Post1>>)
                               [] f = "tags.json" -> File(<<Tag1>>)
                               [] OTHER -> File(<<Row1>>)],
            [r \in {"userPosts", "userEdits", "userTags"} |->
               CASE r = "userPosts" -> OneToMany("authorId", "RESTRICT")
                 [] r = "userEdits" -> OneToOne("editorId", "RESTRICT")
                 [] OTHER -> ManyToMany("tags.json", "RESTRICT")])

NextRelated ==
  \/ \E k \in CacheKeys : GetRelatedCall(k[1], k[2])
  \/ GetRelatedJunction
  \/ GetRelatedForeign
  \/ \E k \in CacheKeys : RelationCacheExpire(k)
  \/ \E file \in RelatedFiles : \E r \in RelatedRecords(file) : AddRecordById(file, r)
  \/ \E file \in RelatedFiles : \E id \in {"p1", "j1", "g1"} :
       \E patch \in RelatedPatches(file) : EditRecordById(file, id, patch)
  \/ \E file \in RelatedFiles : \E id \in {"p1", "j1", "g1"} : DeleteRecordById(file, id)
  \/ MoveFile("posts.json", "tags.json")

SpecRelated == InitRelated /\ [][NextRelated]_vars

InitView ==
  /\ InitLockVars /\ InitWriteVars /\ InitDbVars /\ InitLiteVars /\ InitAuditVars
  /\ InitRelatedVars /\ InitLibVars /\ InitBatchVars /\ InitHookVars /\ InitDelVars
  /\ InitLinkVars
  /\ viewEngine \in Engines
  /\ viewCaching \in IF viewEngine \in {"xdbLite", "xdFiles"} THEN BOOLEAN ELSE {FALSE}
  /\ viewFile \in {NoFile, ObjectFile, File(FiveRecords)} \cup {File(a) : a \in ViewArrays}
  /\ viewCache = NoFile
  /\ viewDescriptor = "none"
  /\ viewCall = ViewIdle

NextView ==
  \/ ViewAll
  \/ LiteViewAll
  \/ FilesViewAll
  \/ \E options \in ViewOptions : ViewMoreCall(options)
  \/ \E options \in ViewOptions : LiteViewMoreCall(options)
  \/ ViewDeleteAll
  \/ ViewDelDir

SpecView == InitView /\ [][NextView]_vars

InitLock == InitLockVars /\ InitWriteVars /\ InitExtVars /\ InitDbVars /\ InitLiteVars
SpecLock == InitLock /\ [][NextLock]_vars

InitWrite == InitLockVars /\ InitWriteVars /\ InitExtVars /\ InitDbVars /\ InitLiteVars
SpecWrite == InitWrite /\ [][NextWrite]_vars

(***************************************************************************)
(* del.id over the lock manager: relations that lead back to a locked path *)
(***************************************************************************)
\* defineRelation(name, { type: "1:N", localFile, localField: "id",
\*                        foreignFile, foreignField, onDelete })
Relation(localFile, foreignFile, foreignField, onDelete) ==
  [type |-> "1:N", localFile |-> EnsureJsonExtension(localFile), localField |-> "id",
   foreignFile |-> EnsureJsonExtension(foreignFile), foreignField |-> foreignField,
   junctionFile |-> NoPath, junctionLocalField |-> "", junctionForeignField |-> "",
   onDelete |-> onDelete]

\* The relations deleteRecordById's loop selects: relation.localFile === filePath
DelRelations(file) ==
  {n \in DOMAIN relationDefinitions : relationDefinitions[n].localFile = file}

\* viewMoreFn(relatedFile, { filter }).data of the check of relation n
DelRelated(me, n) ==
  Referencing(files[RelFile(relationDefinitions[n])], RelField(relationDefinitions[n]), me.id)

\* A RESTRICT check of the call finds a referencing record and throws.
DelRestricted(me) ==
  \E n \in DelRelations(me.file) :
    relationDefinitions[n].onDelete = "RESTRICT" /\ Len(DelRelated(me, n)) > 0

\* The calls the CASCADE and SET_NULL checks of a delete make: del.id, or
\* edit.id with { [field]: null }, for every referencing record.
DelChildren(me) ==
  UNION {{[rel |-> n, file |-> RelFile(relationDefinitions[n]),
           kind |-> IF relationDefinitions[n].onDelete = "CASCADE" THEN "deleteOne" ELSE "editOne",
           id |-> Str(Get(DelRelated(me, n)[i], "id")),
           field |-> RelField(relationDefinitions[n])] :
            i \in {j \in 1..Len(DelRelated(me, n)) :
                     relationDefinitions[n].onDelete # "RESTRICT"}} :
         n \in DelRelations(me.file)}

\* The promise of call p settles: a call the application made keeps its
\* result; the relation check that awaits a call counts it and, when it was
\* the last one, the delete goes on to its write (the checks catch what the
\* calls throw).
DelSettle(p, result) ==
  [q \in LockProcs |->
     IF q = p THEN IF p = 1 THEN [del[p] EXCEPT !.pc = "done", !.result = result, !.data = <<>>]
                            ELSE DelIdle
     ELSE IF q = del[p].parent /\ del[q].pc = "join"
       THEN [del[q] EXCEPT !.pending = @ - 1,
                           !.pc = IF del[q].pending = 1 THEN "write" ELSE "join"]
     ELSE del[q]]

\* acquireLock(filePath) as a call starts it: start is taken, the loop test follows.
Acquiring(path) == [LkIdle EXCEPT !.pc = "check", !.path = path]

\* xdB.del.id("users", id) by the application, up to acquireLock
DelCall(id) ==
  /\ del[1].pc = "idle"
  /\ lk[1].pc = "idle"
  /\ del' = [del EXCEPT ![1] = [DelIdle EXCEPT !.pc = "lock", !.kind = "deleteOne",
                                  !.file = EnsureJsonExtension("users"), !.id = id]]
  /\ lk' = [lk EXCEPT ![1] = Acquiring(EnsureJsonExtension("users"))]
  /\ UNCHANGED <<fileLocks, dbVars, notDelVars>>

\* acquireLock has returned: safeParseJSON under the lock and the search for
\* the record; a delete then starts its relation checks.
DelLocked(p) ==
  /\ del[p].pc = "lock"
  /\ lk[p].pc = "held"
  /\ LET me   == del[p]
         data == ParseFile(files[me.file])
     IN del' = [del EXCEPT ![p] =
                  IF ~HasId(data, me.id)
                    THEN [me EXCEPT !.pc = "release", !.result = RecordNotFound]
                  ELSE IF me.kind = "deleteOne" /\ DelRelations(me.file) # {}
                    THEN [me EXCEPT !.pc = "view", !.data = data]
                  ELSE [me EXCEPT !.pc = "write", !.data = data]]
  /\ UNCHANGED <<lockVars, dbVars, notDelVars>>

\* acquireLock has thrown its timeout: release is null, the call throws.
DelLockThrown(p) ==
  /\ del[p].pc = "lock"
  /\ lk[p].pc = "idle"
  /\ del' = DelSettle(p, OperationFailed)
  /\ UNCHANGED <<lockVars, dbVars, notDelVars>>

\* The viewMoreFn calls of the relation checks return: a RESTRICT check that
\* finds a record throws, the CASCADE and SET_NULL checks call del.id or
\* edit.id for the records they found, each call up to its acquireLock, and
\* await them; the delete awaits its checks.
DelView(p) ==
  /\ del[p].pc = "view"
  /\ LET me    == del[p]
         calls == DelChildren(me)
         idle  == {q \in LockProcs : del[q].pc = "idle"}
     IN /\ Cardinality(calls) <= Cardinality(idle)
        /\ LET slot == CHOOSE f \in [calls -> idle] : \A c, d \in calls : c # d => f[c] # f[d]
               call(q) == CHOOSE c \in calls : slot[c] = q
               called  == {slot[c] : c \in calls}
           IN /\ del' = [q \in LockProcs |->
                   IF q = p
                     THEN IF DelRestricted(me)
                            THEN [me EXCEPT !.pc = "release", !.result = OperationFailed]
                          ELSE IF calls = {} THEN [me EXCEPT !.pc = "write"]
                          ELSE [me EXCEPT !.pc = "join", !.pending = Cardinality(calls)]
                   ELSE IF q \in called
                     THEN [DelIdle EXCEPT !.pc = "lock", !.kind = call(q).kind,
                                          !.file = call(q).file, !.id = call(q).id,
                                          !.field = call(q).field,
                                          !.parent = IF DelRestricted(me) THEN NoParent ELSE p]
                   ELSE del[q]]
              /\ lk' = [q \in LockProcs |->
                   IF q \in called THEN Acquiring(call(q).file) ELSE lk[q]]
  /\ UNCHANGED <<fileLocks, dbVars, notDelVars>>

\* atomicWrite's rename: the file holds what the call read without the
\* deleted record, or with the edited one.
DelWrite(p) ==
  /\ del[p].pc = "write"
  /\ LET me == del[p]
     IN /\ files' = [files EXCEPT ![me.file] =
             File(IF me.kind = "deleteOne"
                    THEN WithoutId(me.data, me.id)
                    ELSE [i \in 1..Len(me.data) |->
                            IF i = FindIndex(me.data, me.id)
                              THEN With(me.data[i], me.field, Null) ELSE me.data[i]])]
        /\ del' = [del EXCEPT ![p] = [me EXCEPT !.pc = "release", !.result = "ok"]]
  /\ UNCHANGED <<lockVars, indexFiles, dbLocks, tasks, tokenCounter, relationDefinitions, files0>>
  /\ UNCHANGED notDelVars

\* finally: if (release) release()
DelRelease(p) ==
  /\ del[p].pc = "release"
  /\ Release(p)

\* The call returns, or throws what its catch rethrows.
DelReturn(p) ==
  /\ del[p].pc = "release"
  /\ lk[p].pc = "idle"
  /\ del' = DelSettle(p, del[p].result)
  /\ UNCHANGED <<lockVars, dbVars, notDelVars>>

\* The users and the posts of the store: Bob may report to Alice and may
\* have a favourite post; the post is Alice's or Bob's.
CycleUsers ==
  {<<[id |-> "u1", managerId |-> Null, favouriteId |-> Null],
     [id |-> "u2", managerId |-> m, favouriteId |-> f]>> : m \in {Null, "u1"}, f \in {Null, "p1"}}
CyclePosts == {NoFile} \cup {File(<<[id |-> "p1", authorId |-> a]>>) : a \in {"u1", "u2"}}

\* The relation graphs: users -> posts; users -> users; users -> posts -> users.
CycleGraphs ==
  {[n \in {"userPosts"} |-> Relation("users", "posts", "authorId", a)] : a \in Policies}
    \cup {[n \in {"reports"} |-> Relation("users", "users", "managerId", a)] : a \in Policies}
    \cup {[n \in {"userPosts", "postFans"} |->
             IF n = "userPosts" THEN Relation("users", "posts", "authorId", x[1])
                                ELSE Relation("posts", "users", "favouriteId", x[2])] :
            x \in Policies \X Policies}

InitCycle ==
  /\ InitLockVars /\ InitWriteVars /\ InitExtVars /\ InitLiteVars
  /\ \E users \in CycleUsers, posts \in CyclePosts, graph \in CycleGraphs :
       InitDb([f \in Files |-> CASE f = "users.json" -> File(users)
                                  [] f = "posts.json" -> posts
                                  [] OTHER -> NoFile],
              graph)

\* The application deletes one user; the calls run as they may.
NextCycle ==
  \/ \E id \in {"u1", "u3"} : DelCall(id)
  \/ \E p \in LockProcs :
       \/ AcquireStep(p)
       \/ Tick(p)
       \/ DelLocked(p)
       \/ DelLockThrown(p)
       \/ DelView(p)
       \/ DelWrite(p)
       \/ DelRelease(p)
       \/ DelReturn(p)

SpecCycle == InitCycle /\ [][NextCycle]_vars

\* Every continuation that can run does run: the event loop is never idle
\* while a promise is settled or an I/O has completed.  The clock owes nothing.
FairSpecCycle == SpecCycle /\ WF_vars(NextCycle)

\* C1: at most one acquirer holds the lock of a path at any moment: between
\* an acquireLock call returning and its release function being called no
\* other acquireLock call for the same path returns.
MutualExclusion ==
  \A p, q \in LockProcs :
    (p # q /\ lk[p].pc = "held" /\ lk[q].pc = "held") => lk[p].path # lk[q].path

\* A waiter has obtained the lock after waiting, while another acquirer of
\* the same path waits behind it.
MutualExclusionWitness ==
  \E p, q \in LockProcs :
    /\ lk[p].pc = "held" /\ lk[p].waited
    /\ lk[q].pc = "await" /\ lk[q].await = p /\ lk[q].path = lk[p].path

\* C4: while an atomic write has not renamed, and after it has failed or was
\* interrupted, the target holds the content committed before the call; the
\* target, and so every read of it, is a complete old or new content, never
\* a partial one.
AtomicWriteSafe ==
  /\ (aw.pc # "idle" \/ aw.result = "IO_ERROR") => disk["target"] = aw.old
  /\ disk["target"] \in {aw.old, aw.data}
  /\ awSeen \in Contents \cup {Absent}

\* A write of new content over committed content has failed part-way through
\* writing, and a read has returned the committed content.
AtomicWriteSafeWitness ==
  /\ aw.pc \in {"cleanup", "crashed"}
  /\ disk[TempPath] = Partial
  /\ disk["target"] \in Contents
  /\ aw.data # disk["target"]
  /\ awSeen = disk["target"]
\* C2: N concurrent addOne calls against the same empty collection each
\* succeed, and the collection then holds exactly N records with N distinct
\* ids.  Along the way no committed record is lost: the file holds one record
\* for every call whose write has been renamed into place, each under the id
\* the call returns.
AddersDone == \A t \in Adders : tasks[t].pc = "done"
Committed  == {t \in Adders : tasks[t].pc \in {"index", "done"} /\ tasks[t].result \in {"none", "ok"}}
LiteWritersDone == \A p \in LiteWriters : lw[p].pc = "done"
NoLostUpdate == LiteWritersDone => ParseFile(liteFile) = serial
\* C5: between calls, for every indexed field F and record R that has it,
\* find(collection, F, R[F]) contains R's id, and every id that find returns
\* is the id of a record whose F has that value, after any sequence of
\* addOne, editOne, deleteOne, addAll, editAll and deleteAll.
IndexHasRecords(file, field) ==
  LET data == ParseFile(files[file])
  IN \A i \in 1..Len(data) :
       Has(data[i], field) =>
         SeqContains(FindInIndex(indexFiles[IndexFilePath(file, field)], data[i][field]),
                     Str(Get(data[i], "id")))
IndexHasOnlyRecords(file, field) ==
  LET data == ParseFile(files[file])
      m    == ParseIndex(indexFiles[IndexFilePath(file, field)])
  IN \A key \in DOMAIN m : \A n \in 1..Len(m[key]) :
       \E i \in 1..Len(data) : /\ Str(Get(data[i], "id")) = m[key][n]
                                /\ Has(data[i], field)
                                /\ Str(data[i][field]) = key
IndexConsistent ==
  Quiescent =>
    \A file \in Files : \A k \in 1..Len(IndexConfig(file)) :
      /\ IndexHasRecords(file, IndexConfig(file)[k])
      /\ IndexHasOnlyRecords(file, IndexConfig(file)[k])

\* C6: every stored record has an id that is a non-empty string and that no
\* other record of its collection has, after any sequence of addOne,
\* editOne, deleteOne, addAll, editAll and deleteAll.
IdsWellFormed ==
  \A file \in Files :
    LET data == ParseFile(files[file])
    IN /\ \A i \in 1..Len(data) :
            Has(data[i], "id") /\ data[i].id \notin {Null, Undef, Num1, ""}
       /\ \A i, j \in 1..Len(data) : i # j => Get(data[i], "id") # Get(data[j], "id")
\* The relations of users with a given policy, the posts that reference a
\* user through one of them, and the record with a given id.
RelationsWith(policy) ==
  {r \in DOMAIN relationDefinitions : relationDefinitions[r].onDelete = policy}
RefersThrough(post, policy, id) ==
  \E r \in RelationsWith(policy) : LooseEq(Get(post, relationDefinitions[r].foreignField), id)
Posts0 == ParseFile(files0["posts.json"])
Posts  == ParseFile(files["posts.json"])
DeleteDone(result) ==
  tasks[1].pc = "done" /\ tasks[1].kind = "deleteOne" /\ tasks[1].result = result

\* C7: while a RESTRICT check of a deleteOne is still running nothing has
\* been written to any collection, and a delete that a RESTRICT check aborted
\* leaves every collection as it was.
RestrictBeforeAnyWrite ==
  /\ (\E t \in TaskIds : tasks[t].kind = "RESTRICT" /\ tasks[t].pc = "view") => files = files0
  /\ DeleteDone(OperationFailed) => files = files0

\* C8: deleteOne of a record that is referenced through a RESTRICT relation
\* fails, and the parent and every record referencing it are unchanged.
RestrictedDeleteChangesNothing ==
  (tasks[1].pc = "done" /\ \E i \in 1..Len(Posts0) : RefersThrough(Posts0[i], "RESTRICT", tasks[1].id))
    => /\ tasks[1].result = OperationFailed
       /\ files["users.json"] = files0["users.json"]
       /\ \A i \in 1..Len(Posts0) :
            (\E p \in Policies : RefersThrough(Posts0[i], p, tasks[1].id))
              => SeqContains(Posts, Posts0[i])

NulledBy(post, id) ==
  {relationDefinitions[r].foreignField : r \in {x \in RelationsWith("SET_NULL") :
      LooseEq(Get(post, relationDefinitions[x].foreignField), id)}}
PrimaryRemovedBeforeDependents ==
  (tasks[1].kind = "deleteOne" /\ files["posts.json"] # files0["posts.json"])
    => ~HasId(ParseFile(files["users.json"]), tasks[1].id)
\* C12: when the delete or the nulling of one dependent fails during a
\* CASCADE or SET_NULL delete, the failure stays with that dependent: the
\* delete returns successfully, the primary record is removed, and nothing is
\* rolled back: every post is gone only through a CASCADE relation, and a
\* post that is still stored differs from before at most by nulled fields.
DependentFailureConfined ==
  (tasks[1].kind = "deleteOne" /\ tasks[1].pc = "done" /\ tasks[1].warned
     /\ RelationsWith("RESTRICT") = {})
    => /\ tasks[1].result = "ok"
       /\ files["users.json"] = File(WithoutId(ParseFile(files0["users.json"]), tasks[1].id))
       /\ \A i \in 1..Len(Posts0) :
            LET before == Posts0[i] IN
              IF HasId(Posts, before.id)
                THEN LET after == Posts[FindIndex(Posts, before.id)]
                     IN /\ DOMAIN after = DOMAIN before
                        /\ \A k \in DOMAIN before :
                             \/ after[k] = before[k]
                             \/ after[k] = Null /\ k \in NulledBy(before, tasks[1].id)
                ELSE RefersThrough(before, "CASCADE", tasks[1].id)
\* The write of the delete of Alice's first post failed and the delete of her
\* second post succeeded: the first post is still stored, the second is gone
\* and so is Alice.
DependentFailureConfinedWitness ==
  /\ DeleteDone("ok") /\ tasks[1].warned /\ Quiescent
  /\ DOMAIN relationDefinitions = {"userPosts"}
  /\ relationDefinitions["userPosts"].onDelete = "CASCADE"
  /\ Len(Posts0) = 2 /\ Posts0[1].authorId = "u1" /\ Posts0[2].authorId = "u1"
  /\ Posts = <<Posts0[1]>>
  /\ files["users.json"] = File(<<Bob>>)
\* C12, for cascadeDelete of the relations library: when the delete or the
\* nulling of a related record has failed, cascadeDelete still returns
\* successfully and the record itself is removed.
CascadeDeleteFailureConfined ==
  (tasks[1].kind = "cascadeDelete" /\ tasks[1].pc = "done" /\ tasks[1].warned)
    => /\ tasks[1].result = "ok"
       /\ ~HasId(ParseFile(files["users.json"]), tasks[1].id)
\* C13: under RESTRICT a delete never leaves a dangling reference: when
\* deleteOne of a parent has succeeded and the calls in flight have
\* completed, no post references the parent through a RESTRICT relation,
\* also when addOne or editOne on the posts ran concurrently with the delete.
NoDanglingAfterRestrictedDelete ==
  (DeleteDone("ok") /\ Quiescent)
    => \A i \in 1..Len(Posts) : ~RefersThrough(Posts[i], "RESTRICT", tasks[1].id)
\* C14: an acquireLock call that has not obtained the lock when its timeout
\* elapses fails with a timeout error: no acquirer is still waiting for the
\* lock after its deadline has passed, whatever the holder does.
NoWaitBeyondDeadline ==
  \A p \in LockProcs : ~(lk[p].pc = "await" /\ lk[p].expired)
\* C15: a call that fails because its lock wait timed out has no partial
\* effect: when it has thrown, the data files and the index files hold what
\* they held before the call, but for what the caller that held the lock has
\* written.
HolderDid(result) == tasks[Holder].pc = "done" /\ tasks[Holder].result = result
TimedOutChangesNothing ==
  (tasks[1].pc = "done" /\ tasks[1].result = OperationFailed
     /\ tasks[Holder].pc \in {"free", "done"})
    => /\ files = IF HolderDid("ok")
                    THEN [files0 EXCEPT !["users.json"] = File(Append(Users0, HolderRecord))]
                    ELSE files0
       /\ indexFiles \in {Index0} \cup
            (IF HolderDid("ok") THEN {IndexAfterAdd(Index0, "users.json", HolderRecord)} ELSE {})
\* del.all timed out waiting for the lock of a collection of two records
\* while another caller added a third: the three records are stored.
TimedOutChangesNothingWitness ==
  /\ tasks[1].pc = "done" /\ tasks[1].kind = "deleteAll" /\ tasks[1].result = OperationFailed
  /\ HolderDid("ok")
  /\ Len(Users0) = MaxRecs
  /\ Users = Append(Users0, HolderRecord)
  /\ indexFiles = IndexAfterAdd(Index0, "users.json", HolderRecord)
\* C16: when a step of an atomic write before the rename fails, the
\* temporary file is deleted and the call raises an IOError: after a failed
\* write no temporary file of that write remains.
FailedWriteLeavesNoTemp ==
  (aw.pc = "idle" /\ aw.result \notin {"none", "ok"})
    => aw.result = "IO_ERROR" /\ disk[TempPath] = Absent
\* C17: with the data cache enabled, once a write to a collection has
\* completed every read that starts afterwards returns the written content:
\* while no write is in progress, a cache entry of the collection holds what
\* the file holds, also when a read was in flight during the write.
CacheHoldsWrittenContent ==
  (cachingEnabled /\ dataCache.exists /\ \A p \in LiteWriters : lw[p].pc \notin {"write", "renamed"})
    => liteFile.exists /\ dataCache.data = liteFile.data
\* C18: a call that fails a precondition or validation check (an invalid
\* record or id, repeated ids in addAll, addAll on an existing file without
\* overwrite, RecordExists, RecordNotFound, a file that holds no array)
\* raises, and raises before anything is written: the data files and the
\* index files are those before the call.
PreconditionFails ==
  LET me == tasks[1] before == files0["users.json"]
  IN \/ me.kind = "addAll" /\ before.exists /\ ~me.opt
     \/ me.kind \in {"addOne", "editOne", "deleteOne"} /\ ~IsArray(before)
     \/ me.kind \in {"editOne", "deleteOne"} /\ ~HasId(Users0, me.id)
     \/ me.kind = "addOne" /\ Get(me.arg, "id") \notin {Undef, Null}
          /\ HasId(Users0, Str(me.arg.id))
FailedCheckChangesNothing ==
  (tasks[1].pc = "done" /\ tasks[Holder].pc = "free")
    => /\ PreconditionFails => tasks[1].result # "ok"
       /\ tasks[1].result # "ok" => files = files0 /\ indexFiles = Index0
\* add.all of two records without overwrite on a collection of two records
\* has thrown OperationFailed, and the collection and its index are as before.
FailedCheckChangesNothingWitness ==
  /\ tasks[1].pc = "done" /\ tasks[1].kind = "addAll" /\ tasks[Holder].pc = "free"
  /\ ~tasks[1].opt /\ Len(tasks[1].arg) = 2
  /\ tasks[1].result = OperationFailed
  /\ Len(Users0) = MaxRecs
  /\ files = files0 /\ indexFiles = Index0
\* C19, for xdbNano's add.id: addOne with a supplied id that is already
\* stored in the collection fails with RecordExists and leaves the
\* collection unchanged.
NanoExistingIdRejected ==
  (tasks[1].kind = "nanoAddOne" /\ tasks[1].pc = "done"
     /\ tasks[1].id # "" /\ HasId(Users0, tasks[1].id) /\ IsArray(files0["users.json"]))
    => tasks[1].result = RecordExists /\ files = files0
\* C19, for the full engine's add.id: the same.
ExistingIdRejected ==
  (tasks[1].kind = "addOne" /\ tasks[1].pc = "done" /\ tasks[Holder].pc = "free"
     /\ Get(tasks[1].arg, "id") \notin {Undef, Null} /\ HasId(Users0, Str(tasks[1].arg.id)))
    => tasks[1].result = RecordExists /\ files = files0 /\ indexFiles = Index0

\* C20: after a successful editOne(c, id, patch) the record with that id has
\* every field of patch other than id at the patch's value, keeps all its
\* other fields and its original id, also when patch carries another id, and
\* every other record of c and the order of the records are as before.
EditDone ==
  /\ tasks[1].kind = "editOne" /\ tasks[1].pc = "done" /\ tasks[1].result = "ok"
  /\ tasks[Holder].pc = "free"
EditMergesPatchOnly ==
  EditDone =>
    LET i == FindIndex(Users0, tasks[1].id)
        patch == tasks[1].newRecord
    IN /\ i # 0
       /\ Len(Users) = Len(Users0)
       /\ \A j \in 1..Len(Users0) : j # i => Users[j] = Users0[j]
       /\ DOMAIN Users[i] = DOMAIN Users0[i] \cup (DOMAIN patch \ {"id"})
       /\ \A k \in DOMAIN Users[i] :
            Users[i][k] = IF k # "id" /\ k \in DOMAIN patch THEN patch[k] ELSE Users0[i][k]
EditMergesPatchOnlyWitness ==
  /\ EditDone
  /\ "id" \in DOMAIN tasks[1].newRecord
  /\ tasks[1].newRecord.id # tasks[1].id
  /\ Len(Users0) = MaxRecs
  /\ Users # Users0

\* C21: reading a collection whose file does not exist is not an error:
\* view.all and view.more return an empty sequence and throw nothing, in
\* every engine and whatever was read or written before.
MissingCollectionReadsEmpty ==
  [][(viewCall' # viewCall /\ ~viewFile.exists)
       => (viewCall'.result.code = "ok" /\ viewCall'.result.data = <<>>
             /\ ~Has(viewCall'.result, "object"))]_vars

\* C27: view.more(c, {skip, limit}) returns exactly the records at positions
\* skip to skip+limit-1 of the filtered and sorted sequence and reports the
\* number of matching records with skip, limit and the page number; with
\* skip 2 and limit 2 on five records these are the records at positions 2
\* and 3, and the total is 5.
Matching(engine, data, options) ==
  LET filtered == IF Has(options, "filter") THEN ApplyFilter(options.filter, data) ELSE data
  IN IF Has(options, "sort") THEN Sort(engine, options.sort, filtered) ELSE filtered
PageOfMatchingRecords ==
  [][(/\ viewCall' # viewCall
      /\ viewCall'.op = "more" /\ viewCall'.result.code = "ok"
      /\ ~(viewCaching /\ viewCache.exists)
      /\ Has(viewCall'.options, "skip") /\ Has(viewCall'.options, "limit"))
       => LET o == viewCall'.options
              r == viewCall'.result
              m == Matching(viewEngine, ParseFile(viewFile), o)
          IN /\ r.data = Slice(m, o.skip, o.skip + o.limit)
             /\ Has(r, "meta")
             /\ r.meta.total = Len(m)
             /\ r.meta.skip = o.skip /\ r.meta.limit = o.limit
             /\ r.meta.page = (o.skip \div o.limit) + 1]_vars

\* C28: view.more orders the records by its sort keys, a later key only
\* breaking the ties of the earlier ones, and a record whose value of a sort
\* key is null or undefined comes after every record that has a value, in
\* ascending and in descending order alike.
CompareNullsLast(sortCriteria, a, b) ==
  LET C[i \in 1..(Len(sortCriteria) + 1)] ==
        IF i > Len(sortCriteria) THEN 0
        ELSE LET criterion == sortCriteria[i]
                 valA == Get(a, criterion.key)
                 valB == Get(b, criterion.key)
             IN IF valA = valB THEN C[i + 1]
                ELSE IF valA \in {Undef, Null} THEN 1
                ELSE IF valB \in {Undef, Null} THEN -1
                ELSE (IF JsLess(valA, valB) THEN -1 ELSE 1) * Direction(criterion)
  IN C[1]
SortedNullsLast ==
  (viewCall.op = "more" /\ viewCall.result.code = "ok" /\ Has(viewCall.options, "sort"))
    => \A i, j \in 1..Len(viewCall.result.data) :
         i < j => CompareNullsLast(viewCall.options.sort,
                                   viewCall.result.data[i], viewCall.result.data[j]) <= 0

\* C22: verifyRelations reports a foreign-key value of a declared relation
\* if and only if no record of the target collection has that value in the
\* target field, also when several relations, or both sides of an N:M
\* relation, point at the same target collection.
Unresolved ==
  UNION {UNION {
    LET check  == ChecksOf(relationDefinitions[n])[k]
        source == ParseFile(files[check.sourceFile])
        target == ParseFile(files[check.targetFile])
    IN {[relationName |-> n, sourceField |-> check.sourceField, brokenValue |-> Str(Get(source[i], check.sourceField))] :
          i \in {i \in 1..Len(source) :
                   /\ Get(source[i], check.sourceField) \notin {Undef, Null}
                   /\ ~\E j \in 1..Len(target) :
                         Str(Get(target[j], check.targetField)) = Str(Get(source[i], check.sourceField))}}
    : k \in 1..Len(ChecksOf(relationDefinitions[n]))} : n \in DOMAIN relationDefinitions}
Reported ==
  {[relationName |-> verification.inconsistencies[i].relationName,
    sourceField  |-> verification.inconsistencies[i].sourceField,
    brokenValue  |-> verification.inconsistencies[i].brokenValue] :
     i \in 1..Len(verification.inconsistencies)}
ReportsExactlyUnresolved == verification.done => Reported = Unresolved

\* C23: getRelated(relationName, localId) answers from what the collections
\* hold when it is called: the one related record or null for 1:1, the list
\* of related records for 1:N, the foreign records reached through the
\* junction rows for N:M; also with the relation cache on and after the
\* collections have changed since an earlier call.
RelatedAt(fs, relationName, localId) ==
  LET relation == relationDefinitions[relationName]
  IN CASE relation.type = "1:1" ->
            One(RelatedFilter(fs[relation.foreignFile], relation.foreignField, localId))
       [] relation.type = "1:N" ->
            Many(RelatedFilter(fs[relation.foreignFile], relation.foreignField, localId))
       [] OTHER ->
            Many(ForeignFilter(fs[relation.foreignFile], relation.foreignField,
                   ForeignIdSet(RelatedFilter(fs[relation.junctionFile],
                                              relation.junctionLocalField, localId),
                                relation.junctionForeignField)))
GetRelatedAnswersFromCollections ==
  (relatedCall.pc = "done" /\ relatedCall.result.code = "ok" /\ ~relatedCall.overlapped)
    => LET now == RelatedAt(files, relatedCall.relationName, relatedCall.localId)
       IN relatedCall.result.single = now.single /\ relatedCall.result.data = now.data

\* C24: when a deleteOne of a local record under an N:M relation with CASCADE
\* or SET_NULL has returned successfully, the junction file holds the rows it
\* held before but for those whose local column refers to the deleted record,
\* in their order; the foreign collection is as it was, and of the local
\* collection only the deleted record is gone.
Rows0 == ParseFile(files0["user_tags.json"])
LibraryGetRelatedIsFresh ==
  [][libCall'.n # libCall.n
       => libCall'.data = SeqFilter(ParseFile(files["posts.json"]),
                                    LAMBDA r : Get(r, libCall'.toField) = "u1")]_vars

\* C26: when commit of a batch has failed, every file is as it was when
\* commit was called: it exists or not as before and has the text it had,
\* the target of a copy or a move and a file that a write replaced included.
FailedBatchRestoresFiles ==
  (batch.pc = "done" /\ batch.result = OperationFailed) => batchFiles = batch.before

\* C29: a listener that throws never changes the outcome of the operation
\* that emitted the event: the call returns or throws what it does with no
\* listener, and the file holds what it holds with no listener.
ThrowingListenerKeepsOutcome ==
  (hookCall.pc = "done" /\ listener.kind \in {"throws", "throwsNull"})
    => IF hookEngine = "xdFiles"
         THEN hookCall.result.code = "ok" /\ hookFile = File(hookCall.arg)
         ELSE IF HasId(ParseFile(hookCall.before), hookCall.arg.id)
           THEN hookCall.result.code = RecordExists /\ hookFile = hookCall.before
           ELSE /\ hookCall.result.code = "ok"
                /\ hookFile = File(Append(ParseFile(hookCall.before), hookCall.arg))

\* C30: a beforeAddId listener runs before add.id reads or persists: what
\* the listener sets on the record is part of the record that is stored.
BeforeListenerChangeStored ==
  (hookEngine = "xdb" /\ hookCall.pc = "done" /\ hookCall.result.code = "ok"
     /\ listener = [event |-> "beforeAddId", kind |-> "stamp"])
    => LET data == ParseFile(hookFile)
       IN Has(data[Len(data)], "createdAt")
\* C31: add.id(c, r) followed by view.id(c, id of the stored record), with no
\* mutation of that record in between, returns r with the assigned id.
AddThenViewReturnsRecord ==
  \A p \in LiteWriters :
    (vo.pc = "done" /\ p \in vo.after)
      => vo.result = [record |-> LiteRecord(p)]
\* C32: del.id always terminates, whatever the relation graph: a call the
\* application has made returns or throws in the end, also when a CASCADE or
\* SET_NULL relation leads to the collection being deleted from or, over
\* other collections, back to one whose lock the delete holds.
DeleteTerminates == (del[1].pc # "idle") ~> (del[1].pc = "done")
\* C33: a read never returns content that was not committed to the collection
\* file: what view.all has returned is a content the file has held, or the
\* content a mutation in progress is writing; after a mutation has failed
\* reads return the committed content, with the data cache on or off.
ReadsCommittedContent ==
  (lr.pc = "idle" /\ lr # LrIdle)
    => ParseFile(lr.got) \in {ParseFile(c) : c \in committed}
                              \cup {lw[p].snap : p \in {q \in LiteWriters : lw[q].pc = "write"}}

FairSpecLock ==
  /\ SpecLock
  /\ \A p \in LockProcs :
       WF_vars(AcquireStep(p)) /\ WF_vars(Release(p)) /\ WF_vars(Tick(p))

\* Acquirers of path that a release has woken and that have not yet run
\* their loop test again.
WokenWaiters(path) ==
  {w \in LockProcs : lk[w].pc = "check" /\ lk[w].path = path /\ lk[w].waited}

WaiterServed ==
  \A p \in LockProcs : (lk[p].pc = "await") ~> (lk[p].pc \in {"held", "idle"})

\* What view.all would return in this state: the cached array, or the file.
ReadNow == CachedParse.read

\* C36: view.more is read-only: what a later read returns is what it would
\* have returned had view.more not been called, with the cache on or off.
ViewManyIsReadOnly ==
  [][(viewCall'.op = "more" /\ viewCall' # viewCall) => ReadNow' = ReadNow]_vars

\* safeParseJSON(indexFilePath) in findIndexedRecords: an index file that
\* was never written reads as no index.
IndexContent(indexFilePath) ==
  IF indexFilePath \in DOMAIN indexFiles THEN indexFiles[indexFilePath] ELSE NoFile

\* xdB.query(filePath, fieldName, fieldValue): the ids findIndexedRecords
\* reads from the index file of filePath as the caller wrote it, then view.id
\* of each id on the collection file; an id view.id does not find is skipped.
Query(filePath, fieldName, fieldValue) ==
  IF ~SeqContains(IndexConfig(filePath), fieldName) THEN Thrown(OperationFailed)
  ELSE LET recordIds == FindInIndex(IndexContent(IndexFilePath(filePath, fieldName)),
                                    fieldValue)
           content   == files[EnsureJsonExtension(filePath)]
           data      == ParseFile(content)
           records[i \in 0..Len(recordIds)] ==
             IF i = 0 THEN <<>>
             ELSE IF HasId(data, recordIds[i])
                    THEN Append(records[i - 1], data[FindIndex(data, recordIds[i])])
                    ELSE records[i - 1]
       IN IF recordIds # <<>> /\ ~IsArray(content) THEN Thrown(OperationFailed)
          ELSE [code |-> "ok", data |-> records[Len(recordIds)]]

\* The records of users.json whose field has the value.
UsersWith(fieldName, fieldValue) ==
  {Users[i] : i \in {j \in 1..Len(Users) :
                       Has(Users[j], fieldName) /\ Str(Users[j][fieldName]) = fieldValue}}

QueryMatches(filePath) ==
  \A v \in {"x", "y"} :
    LET result == Query(filePath, "f", v)
    IN /\ result.code = "ok"
       /\ {result.data[i] : i \in 1..Len(result.data)} = UsersWith("f", v)

\* C37: between calls, query on the indexed field returns the records whose
\* field has the value, and the same records whether the collection is named
\* users or users.json.
QueryReturnsMatching ==
  Quiescent => QueryMatches("users") /\ QueryMatches("users.json")

\* Two collections with the same file name in two directories, both with f
\* indexed; the caller runs the mutations on either, one call after the other.
SharedFiles == {"users.json", "archive/users.json"}
SharedRecords == {[id |-> "a", f |-> "x"], [id |-> "b", f |-> "x"], [id |-> "b", f |-> "y"]}

InitShared ==
  /\ InitLockVars /\ InitWriteVars /\ InitExtVars /\ InitLiteVars
  /\ files \in [SharedFiles -> {NoFile, File(<<>>)}]
  /\ files0 = files
  /\ indexFiles = [p \in IndexPaths |-> NoFile]
  /\ dbLocks = [f \in SharedFiles |-> NoHolder]
  /\ tasks = [t \in TaskIds |-> FreeTask]
  /\ tokenCounter = 0
  /\ relationDefinitions = NoRelations

NextShared ==
  \/ /\ Quiescent
     /\ \E raw \in {"users", "archive/users"} :
          \/ \E rec \in SharedRecords :
               /\ Len(ParseFile(files[EnsureJsonExtension(raw)])) < MaxRecs
               /\ CallAddOne(1, raw, rec)
          \/ \E id \in {"a", "b"}, patch \in {[f |-> "y"]} : CallEditOne(1, raw, id, patch)
          \/ \E id \in {"a", "b"} : CallDeleteOne(1, raw, id)
          \/ \E recs \in {<<[id |-> "a", f |-> "y"]>>}, overwrite \in BOOLEAN :
               CallAddAll(1, raw, recs, overwrite)
          \/ CallDeleteAll(1, raw)
  \/ Begin(1) \/ Write(1) \/ Finish(1)

SpecShared == InitShared /\ [][NextShared]_vars

\* C38: the index maintenance of a call on archive/users.json leaves the
\* index entries of users.json as they are.
IndexesDisjoint ==
  [][(tasks[1].pc = "index" /\ tasks[1].file = "archive/users.json")
       => indexFiles'[IndexFilePath("users.json", "f")]
            = indexFiles[IndexFilePath("users.json", "f")]]_vars

\* add.id(filePath, newRecord) of xdFiles with an id no record has: the
\* array safeParseJSON returns (the cached one if there is one, [] for
\* FILE_NOT_FOUND) gets the record and atomicWrite writes it and invalidates
\* the cache entry.  A file that holds an object, or a record with that id,
\* ends the call after safeParseJSON has cached what it read.  The call does
\* not look at the file descriptors.
FilesAddOne(newRecord) ==
  LET r    == CachedParse
      data == IF r.read.code = "ok" THEN r.read.data ELSE <<>>
  IN /\ viewEngine = "xdFiles"
     /\ Len(data) < MaxViewRecs
     /\ IF (r.read.code = "ok" /\ Has(r.read, "object")) \/ HasId(data, newRecord.id)
          THEN /\ viewCache' = r.cache
               /\ UNCHANGED viewFile
          ELSE /\ viewFile' = File(Append(data, newRecord))
               /\ viewCache' = NoFile
     /\ UNCHANGED <<viewEngine, viewCaching, viewDescriptor, viewCall>>
     /\ UNCHANGED notViewVars

AddedRecord == [id |-> "r9", a |-> Num2, b |-> Num1]

NextFilesAdd == NextView \/ FilesAddOne(AddedRecord)
SpecFilesAdd == InitView /\ [][NextFilesAdd]_vars

\* C39: in xdFiles every view.all of a collection file that exists returns
\* the records of the file, also when a view.all ran before add.id created
\* the file.
ViewAllAfterCreate ==
  [][(/\ viewEngine = "xdFiles"
      /\ viewCall'.op = "all" /\ viewCall' # viewCall
      /\ viewFile.exists /\ IsArray(viewFile))
       => /\ viewCall'.result.code = "ok"
          /\ {viewCall'.result.data[i] : i \in 1..Len(viewCall'.result.data)}
               = {viewFile.data[i] : i \in 1..Len(viewFile.data)}]_vars

(***************************************************************************)
(* Relations add-on: createManyToMany on one junction table                *)
(***************************************************************************)
\* The row createManyToMany adds to the rows data; add.id generates an id no
\* row has.
LinkRow(data, id1, id2) ==
  [id |-> KeyTable[Len(data) + 1], collection1_id |-> id1, collection2_id |-> id2]

\* existingRelations.data.some(...): a row links the pair, in either order.
LinkExists(data, id1, id2) ==
  \E i \in 1..Len(data) :
    \/ data[i].collection1_id = id1 /\ data[i].collection2_id = id2
    \/ data[i].collection1_id = id2 /\ data[i].collection2_id = id1

\* createManyToMany({collection1, id1, collection2, id2}) up to the readFile
\* of its view.all, which takes no lock.
CreateManyToMany(p, id1, id2) ==
  /\ linkCall[p].pc = "idle"
  /\ linkCall' = [linkCall EXCEPT ![p] = [LinkIdle EXCEPT !.pc = "view", !.id1 = id1,
                                                          !.id2 = id2]]
  /\ UNCHANGED <<linkTable, linkLock>>
  /\ UNCHANGED <<coreVars, viewVars, auditVars, relatedVars, libVars, batchVars, hookVars,
                 delVars>>

\* view.all returns the rows of the table: the call returns "Relation
\* already exists" or calls add.id, which waits for the lock of the table.
LinkViewed(p) ==
  /\ linkCall[p].pc = "view"
  /\ linkCall' = [linkCall EXCEPT ![p] =
       IF LinkExists(linkTable, linkCall[p].id1, linkCall[p].id2)
         THEN [@ EXCEPT !.pc = "done", !.result = "exists"]
         ELSE [@ EXCEPT !.pc = "lock"]]
  /\ UNCHANGED <<linkTable, linkLock>>
  /\ UNCHANGED <<coreVars, viewVars, auditVars, relatedVars, libVars, batchVars, hookVars,
                 delVars>>

\* add.id takes the lock, reads the table and pushes the row.
LinkAdd(p) ==
  /\ linkCall[p].pc = "lock"
  /\ linkLock = NoHolder
  /\ linkLock' = p
  /\ linkCall' = [linkCall EXCEPT ![p].pc = "write",
                                  ![p].data = Append(linkTable,
                                     LinkRow(linkTable, linkCall[p].id1, linkCall[p].id2))]
  /\ UNCHANGED linkTable
  /\ UNCHANGED <<coreVars, viewVars, auditVars, relatedVars, libVars, batchVars, hookVars,
                 delVars>>

\* atomicWrite's rename, the release of the lock and the return.
LinkWritten(p) ==
  /\ linkCall[p].pc = "write"
  /\ linkTable' = linkCall[p].data
  /\ linkLock' = NoHolder
  /\ linkCall' = [linkCall EXCEPT ![p].pc = "done", ![p].result = "ok", ![p].data = <<>>]
  /\ UNCHANGED <<coreVars, viewVars, auditVars, relatedVars, libVars, batchVars, hookVars,
                 delVars>>

\* The application is done with the result of a call and may call again.
LinkForget(p) ==
  /\ linkCall[p].pc = "done"
  /\ linkCall' = [linkCall EXCEPT ![p] = LinkIdle]
  /\ UNCHANGED <<linkTable, linkLock>>
  /\ UNCHANGED <<coreVars, viewVars, auditVars, relatedVars, libVars, batchVars, hookVars,
                 delVars>>

\* The pairs the application links: a user and a tag, in either order, and
\* another user with the tag.
LinkPairs == {<<"u1", "g1">>, <<"g1", "u1">>, <<"u2", "g1">>}
MaxLinkRows == 2

InitLink ==
  /\ InitLockVars /\ InitWriteVars /\ InitDbVars /\ InitLiteVars
  /\ InitViewVars /\ InitAuditVars /\ InitRelatedVars /\ InitLibVars /\ InitBatchVars
  /\ InitHookVars /\ InitDelVars
  /\ InitLinkVars

NextLink ==
  \E p \in LinkCalls :
    \/ \E pair \in LinkPairs :
         Len(linkTable) < MaxLinkRows /\ CreateManyToMany(p, pair[1], pair[2])
    \/ LinkViewed(p)
    \/ LinkAdd(p)
    \/ LinkWritten(p)
    \/ LinkForget(p)

SpecLink == InitLink /\ [][NextLink]_vars

\* C40: the junction table never holds two rows that link the same pair of
\* ids, in either order, also when calls for the same pair overlap.
OneRowPerPair ==
  \A i, j \in 1..Len(linkTable) :
    i # j => ~LinkExists(<<linkTable[i]>>, linkTable[j].collection1_id,
                         linkTable[j].collection2_id)
====
